---- MODULE Spec2Model ----
(***************************************************************************)
(* A model of keywordguider.py (Keyword Guide UI POC v0.5.2): the durable  *)
(* store (atomic write with retry), the keyword normalizer, the vendor     *)
(* scoped issue-config reconciler and the catalog operations of            *)
(* KeywordGuideApp.                                                        *)
(*                                                                         *)
(* Text is modelled as a sequence of one-character strings, so that        *)
(* str.strip() acts on characters.  A Python dict is an insertion-ordered  *)
(* sequence of [k, v] entries with distinct keys.  A JSON value whose      *)
(* Python type the code inspects (isinstance) is a tagged record.          *)
(***************************************************************************)
EXTENDS Integers, Sequences, FiniteSets, TLC

VARIABLES
    db,         \* self.db: vendor -> issue -> category -> {keywords, params}
    issue_cfg,  \* self.issue_cfg
    disk_db,    \* content of keywords_db.json
    disk_cfg,   \* content of issues_config.json
    sel,        \* vendor_var, issue_var, detail_var
    nav_tree,   \* the node ids of the navigation tree
    kw_rows,    \* the number of rows of the keyword list as last refreshed
    ui_state,   \* self.ui_state
    disk_ui,    \* content of ui_state.json
    fb,         \* the copy feedback: _copy_feedback_after_id, _copy_feedback_row, timers
    nops,       \* user operations handled, and handlers in which a save failed
    removed,    \* the issues that delete_issue removed and nothing added again
    phase,      \* position of the application: "boot", "loaded", "ready", "running"
    last,       \* what the last step did (step name, changed flags, log levels)
    sv,         \* a run of _safe_atomic_write_text: position, attempt, files
    px          \* an application of a pure function: its input and its result

uiVars == <<ui_state, disk_ui, fb>>
appVars == <<db, issue_cfg, disk_db, disk_cfg, sel, nav_tree, kw_rows, nops, removed, phase,
             last, uiVars>>
vars == <<db, issue_cfg, disk_db, disk_cfg, sel, nav_tree, kw_rows, nops, removed, phase, last,
          uiVars, sv, px>>

---------------------------------------------------------------------------
(* Text *)

Whitespace == {" "}

RECURSIVE LStrip(_)
LStrip(s) == IF s # <<>> /\ Head(s) \in Whitespace THEN LStrip(Tail(s)) ELSE s

RECURSIVE RStrip(_)
RStrip(s) ==
    IF s # <<>> /\ s[Len(s)] \in Whitespace
    THEN RStrip(SubSeq(s, 1, Len(s) - 1))
    ELSE s

\* str.strip()
Strip(s) == RStrip(LStrip(s))

---------------------------------------------------------------------------
(* JSON values *)

Absent == [t |-> "absent"]          \* the key is not in the dict
JNull == [t |-> "null"]             \* None
JStr(s) == [t |-> "str", s |-> s]
JList(l) == [t |-> "list", l |-> l]
JDict(d) == [t |-> "dict", d |-> d]
\* a vendor object of issues_config.json: {"issues": ..., "delimiter": ...}
VObj(issues, delimiter) == [t |-> "vobj", issues |-> issues, delimiter |-> delimiter]

\* str(x) for the values a list item or a delimiter takes here
PyStr(j) == IF j.t = "str" THEN j.s ELSE <<"N", "o", "n", "e">>

---------------------------------------------------------------------------
(* Insertion-ordered dicts *)

Keys(d) == [n \in 1..Len(d) |-> d[n].k]
KeySet(d) == {d[n].k : n \in 1..Len(d)}
HasKey(d, k) == \E n \in 1..Len(d) : d[n].k = k
Idx(d, k) == CHOOSE n \in 1..Len(d) : d[n].k = k
Get(d, k) == d[Idx(d, k)].v
\* d[k] = v
Put(d, k, v) ==
    IF HasKey(d, k)
    THEN [d EXCEPT ![Idx(d, k)] = [k |-> k, v |-> v]]
    ELSE Append(d, [k |-> k, v |-> v])
\* d.setdefault(k, v)
SetDefault(d, k, v) == IF HasKey(d, k) THEN d ELSE Append(d, [k |-> k, v |-> v])
\* del d[k]
Del(d, k) == SelectSeq(d, LAMBDA e : e.k # k)

---------------------------------------------------------------------------
(* Constants of the program *)

DEFAULT_DELIMITER == <<";">>
MTK == <<"M", "T", "K">>
SLSI == <<"S", "L", "S", "I">>
OLD == <<"O", "L", "D">>
COMMON == <<"_", "C", "O", "M", "M", "O", "N">>
\* the two built-in issue names; each holds an inner space and no outer one
DefIssue1 == <<"D", " ", "I">>
DefIssue2 == <<"N", " ", "I">>

default_issues == <<JStr(DefIssue1), JStr(DefIssue2)>>

EmptyCat == [t |-> "cat", keywords |-> <<>>, params |-> <<>>]

_default_issue_obj == <<[k |-> COMMON, v |-> EmptyCat]>>

\* a default Catalog of the first vendor only
_default_dbFirstVendor ==
    <<[k |-> MTK,
       v |-> [n \in 1..Len(default_issues) |->
                 [k |-> default_issues[n].s, v |-> _default_issue_obj]]]>>

_default_db ==
    LET issues == [n \in 1..Len(default_issues) |->
                      [k |-> default_issues[n].s, v |-> _default_issue_obj]]
    IN  <<[k |-> MTK, v |-> issues], [k |-> SLSI, v |-> issues]>>

---------------------------------------------------------------------------
(* ensure_issue_config_vendor_scoped *)

\* the loop without the set seen: a name listed twice is kept twice
RECURSIVE CleanDedupKeepRepeats(_, _)
CleanDedupKeepRepeats(items, acc) ==
    IF items = <<>> THEN acc
    ELSE LET s == Strip(PyStr(Head(items)))
         IN  IF s = <<>>
             THEN CleanDedupKeepRepeats(Tail(items), acc)
             ELSE CleanDedupKeepRepeats(Tail(items), Append(acc, JStr(s)))

\* the loop of lines 204-211: trim, drop blanks, first occurrence wins
RECURSIVE CleanDedup(_, _)
CleanDedup(items, acc) ==
    IF items = <<>> THEN acc
    ELSE LET s == Strip(PyStr(Head(items)))
         IN  IF s = <<>> \/ \E n \in 1..Len(acc) : acc[n] = JStr(s)
             THEN CleanDedup(Tail(items), acc)
             ELSE CleanDedup(Tail(items), Append(acc, JStr(s)))

\* the body of the loop over vendors, applied to cfg["vendors"].get(v)
EnsureVendor(got) ==
    LET vobj == IF got.t = "vobj" THEN got ELSE VObj(Absent, Absent)
        issues == vobj.issues
        cleaned == IF issues.t = "list" THEN CleanDedup(issues.l, <<>>) ELSE <<>>
        newIssues ==
            IF issues.t # "list" \/ issues.l = <<>> THEN default_issues
            ELSE IF cleaned # <<>> THEN cleaned ELSE default_issues
        delim == IF vobj.delimiter.t \in {"absent", "null"}
                 THEN DEFAULT_DELIMITER
                 ELSE PyStr(vobj.delimiter)
    IN  VObj(JList(newIssues), JStr(delim))

RECURSIVE EnsureVendors(_, _)
EnsureVendors(vd, vendors) ==
    IF vendors = <<>> THEN vd
    ELSE LET v == Head(vendors)
             got == IF HasKey(vd, v) THEN Get(vd, v) ELSE JNull
         IN  EnsureVendors(Put(vd, v, EnsureVendor(got)), Tail(vendors))

\* cfg is a dict with the keys "issues" and "vendors", each possibly absent
ensure_issue_config_vendor_scoped(cfg, vendors) ==
    LET shared == IF cfg.issues.t # "list" \/ cfg.issues.l = <<>>
                  THEN default_issues
                  ELSE cfg.issues.l
        c1 == IF cfg.issues.t # "absent" /\ cfg.vendors.t = "absent"
              THEN [issues |-> Absent,
                    vendors |-> JDict([n \in 1..Len(vendors) |->
                        [k |-> vendors[n],
                         v |-> VObj(JList(shared), JStr(DEFAULT_DELIMITER))]])]
              ELSE cfg
        vd == IF c1.vendors.t = "dict" THEN c1.vendors.d ELSE <<>>
    IN  [issues |-> c1.issues, vendors |-> JDict(EnsureVendors(vd, vendors))]

---------------------------------------------------------------------------
(* Config helpers of KeywordGuideApp *)

_get_vendor_cfg(cfg, v) ==
    IF cfg.vendors.t = "dict" /\ HasKey(cfg.vendors.d, v)
    THEN Get(cfg.vendors.d, v)
    ELSE VObj(Absent, Absent)

_get_vendor_issues(cfg, v) ==
    LET vobj == _get_vendor_cfg(cfg, v)
    IN  IF vobj.t = "vobj" /\ vobj.issues.t = "list" THEN vobj.issues.l ELSE <<>>

_set_vendor_issues(cfg, v, issues) ==
    LET vd == IF cfg.vendors.t = "dict" THEN cfg.vendors.d ELSE <<>>
        old == IF HasKey(vd, v) /\ Get(vd, v).t = "vobj"
               THEN Get(vd, v) ELSE VObj(Absent, Absent)
    IN  [cfg EXCEPT !.vendors = JDict(Put(vd, v, VObj(JList(issues), old.delimiter)))]

_get_vendor_delimiter(cfg, v) ==
    LET vobj == _get_vendor_cfg(cfg, v)
    IN  IF vobj.t # "vobj" \/ vobj.delimiter.t \in {"absent", "null"}
        THEN DEFAULT_DELIMITER
        ELSE PyStr(vobj.delimiter)

---------------------------------------------------------------------------
(* KeywordGuideApp._sync_vendor_scoped_config_with_db *)

\* the membership test made on the key as read, not on the trimmed key
RECURSIVE AppendDbIssuesTestRaw(_, _)
AppendDbIssuesTestRaw(keys, cfg_list) ==
    IF keys = <<>> THEN cfg_list
    ELSE LET s == Strip(Head(keys))
         IN  IF s = <<>> \/ \E n \in 1..Len(cfg_list) : cfg_list[n] = JStr(Head(keys))
             THEN AppendDbIssuesTestRaw(Tail(keys), cfg_list)
             ELSE AppendDbIssuesTestRaw(Tail(keys), Append(cfg_list, JStr(s)))

\* lines 1051-1060: DB-only issue keys are appended, trimmed, to the config list
RECURSIVE AppendDbIssues(_, _)
AppendDbIssues(keys, cfg_list) ==
    IF keys = <<>> THEN cfg_list
    ELSE LET s == Strip(Head(keys))
         IN  IF s = <<>> \/ \E n \in 1..Len(cfg_list) : cfg_list[n] = JStr(s)
             THEN AppendDbIssues(Tail(keys), cfg_list)
             ELSE AppendDbIssues(Tail(keys), Append(cfg_list, JStr(s)))

\* lines 1065-1068: every listed issue gets an issue object in the DB
RECURSIVE CreateMissing(_, _)
CreateMissing(dbv, cfg_list) ==
    IF cfg_list = <<>> THEN dbv
    ELSE CreateMissing(SetDefault(dbv, PyStr(Head(cfg_list)), _default_issue_obj),
                       Tail(cfg_list))

\* one turn of the loop over vendors (lines 1040-1073); st carries the
\* config, the DB and the two changed flags
SyncVendor(st, v) ==
    LET dbv == Get(st.db, v)
        got == _get_vendor_issues(st.cfg, v)
        cfg_list == IF got = <<>> THEN default_issues ELSE got
        cfg1 == IF got = <<>> THEN _set_vendor_issues(st.cfg, v, cfg_list) ELSE st.cfg
        merged == AppendDbIssues(Keys(dbv), cfg_list)
        appended == merged # cfg_list
        cfg2 == IF appended THEN _set_vendor_issues(cfg1, v, merged) ELSE cfg1
        dbv2 == CreateMissing(dbv, merged)
    IN  [cfg |-> cfg2,
         db |-> Put(st.db, v, dbv2),
         changed_cfg |-> st.changed_cfg \/ got = <<>> \/ appended,
         changed_db |-> st.changed_db
                          \/ \E n \in 1..Len(merged) : ~HasKey(dbv, PyStr(merged[n]))]

RECURSIVE SyncVendors(_, _)
SyncVendors(st, vendors) ==
    IF vendors = <<>> THEN st
    ELSE SyncVendors(SyncVendor(st, Head(vendors)), Tail(vendors))

\* the method up to its saves: the new config and DB and the changed flags
_sync_vendor_scoped_config_with_db(cfg, d) ==
    SyncVendors([cfg |-> ensure_issue_config_vendor_scoped(cfg, Keys(d)),
                 db |-> d, changed_cfg |-> FALSE, changed_db |-> FALSE],
                Keys(d))

---------------------------------------------------------------------------
(* Documents the reconciler is started on *)

MaxDbIssues == 2       \* issue keys per vendor in a loaded keywords_db.json
MaxCfgIssues == 2      \* entries of an "issues" list in a loaded issues_config.json

\* sequences over S of length at most n
BSeq(S, n) == UNION {[1..m -> S] : m \in 0..n}
Distinct(q) == \A a, b \in 1..Len(q) : a # b => q[a] # q[b]

NameA == <<"A">>
NameB == <<"B">>
NameF == <<"F">>
\* keys of a hand-edited DB: plain, with outer whitespace, empty
RawIssueKeys == {NameA, <<" ", "A">>, <<>>}
\* an issue with _COMMON and one without
RawIssueObjs == {_default_issue_obj, <<[k |-> NameF, v |-> EmptyCat]>>}

RawVendorMaps ==
    {m \in BSeq([k : RawIssueKeys, v : RawIssueObjs], MaxDbIssues) : Distinct(Keys(m))}

\* {} (also a missing or unreadable file), one vendor, two vendors
LoadedDbs ==
    {<<>>}
    \cup {<<[k |-> MTK, v |-> m]>> : m \in RawVendorMaps}
    \cup {<<[k |-> MTK, v |-> m],
            [k |-> SLSI, v |-> <<[k |-> NameB, v |-> _default_issue_obj]>>]>> :
          m \in RawVendorMaps}

RawItems == {JStr(NameA), JStr(<<" ", "A">>), JStr(<<>>), JNull}
RawIssueLists == {Absent, JNull} \cup {JList(l) : l \in BSeq(RawItems, MaxCfgIssues)}
RawDelims == {Absent, JNull, JStr(<<",">>), JStr(<<>>)}
OldVObj == VObj(JList(<<JStr(NameB)>>), JStr(<<";">>))

CfgOf(vd) == [issues |-> Absent, vendors |-> JDict(vd)]

LoadedCfgs ==
    \* every shape of one vendor's issue list
    {CfgOf(<<[k |-> MTK, v |-> VObj(i, Absent)]>>) : i \in RawIssueLists}
    \* every shape of the delimiter
    \cup {CfgOf(<<[k |-> MTK, v |-> VObj(JList(<<JStr(NameA)>>), d)]>>) : d \in RawDelims}
    \* a vendor entry that is no object, and an entry of a vendor the DB may lack
    \cup {CfgOf(<<[k |-> MTK, v |-> JNull]>>),
          CfgOf(<<[k |-> OLD, v |-> OldVObj]>>),
          CfgOf(<<[k |-> OLD, v |-> OldVObj], [k |-> MTK, v |-> VObj(Absent, Absent)]>>)}
    \* the legacy flat schema, alone and beside "vendors"
    \cup {[issues |-> i, vendors |-> vs] :
            i \in {Absent, JNull, JList(<<>>), JList(<<JStr(<<" ", "A">>), JStr(NameA)>>)},
            vs \in {Absent, JNull, JDict(<<[k |-> MTK, v |-> VObj(Absent, Absent)]>>)}}

EmptyCfg == [issues |-> Absent, vendors |-> Absent]
NoSel == [v |-> <<>>, i |-> <<>>, d |-> <<>>]
NoLast == [step |-> "none", changed_cfg |-> FALSE, changed_db |-> FALSE, log |-> {},
           mutated |-> FALSE, arg |-> <<>>, at |-> NoSel, failed |-> {},
           mem_db |-> FALSE, mem_cfg |-> FALSE,
           confirm |-> FALSE, pre |-> <<>>, row |-> 0]
\* max: the number of operations the run is followed for
NoOps == [ops |-> 0, fails |-> 0, max |-> 0]
IdleSv == [pc |-> "idle"]
IdlePx == [f |-> "none"]
\* no feedback shown, no reset callback scheduled
\* after_id: _copy_feedback_after_id (0: None); row: _copy_feedback_row (0: None);
\* pending: the ids of the callbacks scheduled with after() that have neither
\* run nor been cancelled; ids: the ids given out; copied: the rows that show
\* "Copied"
IdleFb == [after_id |-> 0, row |-> 0, pending |-> {}, ids |-> 0, copied |-> {}]
\* no ui_state.json, which load_json reads as {}; no copy feedback
NoUi == ui_state = <<>> /\ disk_ui = <<>> /\ fb = IdleFb

---------------------------------------------------------------------------
(* Start of KeywordGuideApp.__init__ and the reconciliation *)

\* load_json: a missing, unreadable or non-object file reads as {}
load_json(doc) == doc

\* lines 899-908: load both documents, fall back to the default DB, ensure
Load ==
    /\ phase = "boot"
    /\ LET loaded == load_json(disk_db)
           d == IF loaded = <<>> THEN _default_db ELSE loaded
       IN  /\ db' = d
           /\ issue_cfg' = ensure_issue_config_vendor_scoped(load_json(disk_cfg), Keys(d))
    /\ phase' = "loaded"
    /\ last' = [NoLast EXCEPT !.step = "load"]
    /\ UNCHANGED <<disk_db, disk_cfg, sel, nav_tree, kw_rows, nops, removed, uiVars, sv, px>>

\* lines 1075-1086: each changed document is saved; a save that fails is
\* logged as a warning and the document on disk stays as it was
SyncAndSave(step) ==
    \E r \in {_sync_vendor_scoped_config_with_db(issue_cfg, db)} :
        \E okCfg, okDb \in BOOLEAN :
            /\ (~r.changed_cfg => okCfg)
            /\ (~r.changed_db => okDb)
            /\ issue_cfg' = r.cfg
            /\ db' = r.db
            /\ disk_cfg' = IF r.changed_cfg /\ okCfg THEN r.cfg ELSE disk_cfg
            /\ disk_db' = IF r.changed_db /\ okDb THEN r.db ELSE disk_db
            /\ last' = [NoLast EXCEPT
                        !.step = step,
                        !.changed_cfg = r.changed_cfg,
                        !.changed_db = r.changed_db,
                        !.log = (IF r.changed_cfg
                                 THEN {<<IF okCfg THEN "INFO" ELSE "WARN", "cfg">>} ELSE {})
                                \cup (IF r.changed_db
                                      THEN {<<IF okDb THEN "INFO" ELSE "WARN", "db">>}
                                      ELSE {})]

\* line 909: the first reconciliation
Sync ==
    /\ phase = "loaded"
    /\ SyncAndSave("sync")
    /\ phase' = "ready"
    /\ UNCHANGED <<sel, nav_tree, kw_rows, nops, removed, uiVars, sv, px>>

\* a later reconciliation: ensure (as at line 1302) followed by the sync (as
\* at lines 1434 and 1707)
Reconcile ==
    /\ phase = "ready"
    /\ \E r \in {_sync_vendor_scoped_config_with_db(
                    ensure_issue_config_vendor_scoped(issue_cfg, Keys(db)), db)} :
          \E okCfg, okDb \in BOOLEAN :
            /\ (~r.changed_cfg => okCfg)
            /\ (~r.changed_db => okDb)
            /\ issue_cfg' = r.cfg
            /\ db' = r.db
            /\ disk_cfg' = IF r.changed_cfg /\ okCfg THEN r.cfg ELSE disk_cfg
            /\ disk_db' = IF r.changed_db /\ okDb THEN r.db ELSE disk_db
            /\ last' = [NoLast EXCEPT
                        !.step = "reconcile",
                        !.changed_cfg = r.changed_cfg,
                        !.changed_db = r.changed_db]
    /\ phase' = "ready"
    /\ UNCHANGED <<sel, nav_tree, kw_rows, nops, removed, uiVars, sv, px>>

InitRecon ==
    /\ disk_db \in LoadedDbs
    /\ disk_cfg \in LoadedCfgs
    /\ db = <<>>
    /\ issue_cfg = EmptyCfg
    /\ sel = NoSel
    /\ nav_tree = {}
    /\ kw_rows = 0
    /\ NoUi
    /\ removed = {}
    /\ nops = NoOps
    /\ phase = "boot"
    /\ last = NoLast
    /\ sv = IdleSv
    /\ px = IdlePx

NextRecon == Load \/ Sync \/ Reconcile

SpecRecon == InitRecon /\ [][NextRecon]_vars

---------------------------------------------------------------------------
(* Properties of the reconciliation, checked under SpecRecon *)

\* the issue names of vendor v in the config, as text
CfgIssueNames(cfg, v) ==
    LET l == _get_vendor_issues(cfg, v) IN {PyStr(l[n]) : n \in 1..Len(l)}

CfgVendors(cfg) == IF cfg.vendors.t = "dict" THEN KeySet(cfg.vendors.d) ELSE {}

\* C1: right after _sync_vendor_scoped_config_with_db, for every vendor of the
\* Catalog, every issue key of the Catalog is in the vendor's config list and
\* every listed name has a category map in the Catalog that contains _COMMON.
SyncLinksConfigAndCatalog ==
    phase = "ready" =>
        \A v \in KeySet(db) :
            /\ KeySet(Get(db, v)) \subseteq CfgIssueNames(issue_cfg, v)
            /\ \A name \in CfgIssueNames(issue_cfg, v) :
                   /\ HasKey(Get(db, v), name)
                   /\ HasKey(Get(Get(db, v), name), COMMON)

\* C2: a reconciliation (ensure, then sync) that follows a reconciliation
\* changes neither the config nor the DB, in memory or on disk, and sets
\* neither changed flag.
ReconcileIdempotent ==
    [][(phase = "ready" /\ last'.step = "reconcile") =>
          /\ db' = db
          /\ issue_cfg' = issue_cfg
          /\ disk_db' = disk_db
          /\ disk_cfg' = disk_cfg
          /\ ~last'.changed_cfg
          /\ ~last'.changed_db]_vars

\* a second reconciliation has run after a first one that merged a DB-only
\* issue into a config list
ReconciledTwice ==
    /\ last.step = "reconcile"
    /\ issue_cfg # ensure_issue_config_vendor_scoped(disk_cfg, Keys(db))
    /\ \E v \in KeySet(db) : Len(_get_vendor_issues(issue_cfg, v)) > 2

\* C4: after reconciliation the vendors with a config entry are exactly the
\* vendors of the Catalog.
ConfigVendorsEqualCatalogVendors ==
    phase = "ready" => CfgVendors(issue_cfg) = KeySet(db)

---------------------------------------------------------------------------
(* _safe_atomic_write_text: one run, step by step *)

Retries == 7          \* retries: int = 7
TextLen == 2          \* characters of the text that is written
MaxUnlinkFail == 2    \* removals of a temp file that the system may refuse

\* seconds of backoff, in milliseconds
delays == <<0, 30, 60, 120, 250, 500, 900>>

Max(a, b) == IF a >= b THEN a ELSE b

Path == <<"path">>
\* the text written in place, onto the target itself
TmpPathInPlace(path, ms) == path

\* path.with_name(path.name + ".tmp.<pid>.<ms>"): one name per millisecond
TmpPath(path, ms) == path \o <<".tmp", ms>>

NewText == [n \in 1..TextLen |-> "n"]
OldText == [n \in 1..TextLen |-> "o"]
Prefixes(t) == {SubSeq(t, 1, n) : n \in 0..Len(t)}

\* the file system: file name -> content
WriteFile(files, name, content) == (name :> content) @@ files
RemoveFile(files, name) == [n \in DOMAIN files \ {name} |-> files[n]]
\* os.replace(src, dst)
Replace(files, src, dst) == RemoveFile(WriteFile(files, dst, files[src]), src)

NoFiles == [n \in {} |-> <<>>]

SvRunning == sv.pc \in {"try", "open", "write", "replace", "except", "sleep"}

\* lines 93-96: the temp name of this attempt
MakeTmpPath ==
    /\ sv.pc = "try"
    /\ sv' = [sv EXCEPT !.pc = "open", !.cur = TmpPath(Path, sv.clock)]
    /\ UNCHANGED appVars /\ UNCHANGED px

\* line 98: open(tmp_path, "w") creates the file, or empties it
OpenOk ==
    /\ sv.pc = "open"
    /\ sv' = [sv EXCEPT !.pc = "write", !.files = WriteFile(sv.files, sv.cur, <<>>)]
    /\ UNCHANGED appVars /\ UNCHANGED px

OpenFail ==
    /\ sv.pc = "open"
    /\ sv' = [sv EXCEPT !.pc = "except", !.last_err = "open"]
    /\ UNCHANGED appVars /\ UNCHANGED px

\* lines 99-104: write, flush, fsync (its error is ignored), close
WriteOk ==
    /\ sv.pc = "write"
    /\ sv' = [sv EXCEPT !.pc = "replace",
                        !.files = WriteFile(sv.files, sv.cur, sv.text)]
    /\ UNCHANGED appVars /\ UNCHANGED px

\* the write raises after part of the text reached the file
WriteFail ==
    /\ sv.pc = "write"
    /\ \E part \in Prefixes(sv.text) \ {sv.text} :
           sv' = [sv EXCEPT !.pc = "except", !.last_err = "write",
                            !.files = WriteFile(sv.files, sv.cur, part)]
    /\ UNCHANGED appVars /\ UNCHANGED px

\* lines 106-107: os.replace(tmp_path, path); return
ReplaceOk ==
    /\ sv.pc = "replace"
    /\ sv' = [sv EXCEPT !.pc = "returned", !.files = Replace(sv.files, sv.cur, Path)]
    /\ UNCHANGED appVars /\ UNCHANGED px

ReplaceFail ==
    /\ sv.pc = "replace"
    /\ sv' = [sv EXCEPT !.pc = "except", !.last_err = "replace"]
    /\ UNCHANGED appVars /\ UNCHANGED px

\* the handler without its cleanup
CleanupSkipped ==
    /\ sv.pc = "except"
    /\ sv' = [sv EXCEPT !.pc = "sleep"]
    /\ UNCHANGED appVars /\ UNCHANGED px

\* lines 109-115: the temp file is removed if it exists
CleanupOk ==
    /\ sv.pc = "except"
    /\ sv' = [sv EXCEPT !.pc = "sleep", !.files = RemoveFile(sv.files, sv.cur)]
    /\ UNCHANGED appVars /\ UNCHANGED px

\* lines 113-115: unlink raises and the error is passed over
CleanupFail ==
    /\ sv.pc = "except"
    /\ sv.cur \in DOMAIN sv.files
    /\ Cardinality(sv.stuck) < MaxUnlinkFail
    /\ sv' = [sv EXCEPT !.pc = "sleep", !.stuck = sv.stuck \cup {sv.cur}]
    /\ UNCHANGED appVars /\ UNCHANGED px

\* the loop running one attempt more than max(1, retries)
BackoffOneMore ==
    /\ sv.pc = "sleep"
    /\ sv' = IF sv.attempt + 1 <= Max(1, Retries)
             THEN [sv EXCEPT !.pc = "try", !.attempt = sv.attempt + 1,
                             !.clock = sv.clock + 1]
             ELSE [sv EXCEPT !.pc = "raised"]
    /\ UNCHANGED appVars /\ UNCHANGED px

\* lines 117-119 and the loop of line 92: back off, then the next attempt;
\* line 121 after the last one.  A sleep moves the clock to a later
\* millisecond; without one (a delay of 0) the clock may stand still.
Backoff ==
    /\ sv.pc = "sleep"
    /\ LET delay == IF sv.attempt < Len(delays)
                    THEN delays[sv.attempt + 1] ELSE delays[Len(delays)]
       IN  \E tick \in {0, 1} :
            /\ (delay > 0 => tick = 1)
            /\ sv' = IF sv.attempt + 1 < Max(1, Retries)
                     THEN [sv EXCEPT !.pc = "try", !.attempt = sv.attempt + 1,
                                     !.clock = sv.clock + tick]
                     ELSE [sv EXCEPT !.pc = "raised", !.clock = sv.clock + tick]
    /\ UNCHANGED appVars /\ UNCHANGED px

\* the process stops at any step; a write in progress leaves part of the text
Crash ==
    /\ SvRunning
    /\ \E part \in Prefixes(sv.text) :
        /\ (sv.pc # "write" => part = sv.text)
        /\ sv' = [sv EXCEPT !.pc = "crashed",
                            !.files = IF sv.pc = "write"
                                      THEN WriteFile(sv.files, sv.cur, part)
                                      ELSE sv.files]
    /\ UNCHANGED appVars /\ UNCHANGED px

\* a save of NewText onto a target that is missing or holds a document
InitSave ==
    /\ \E files \in {NoFiles, WriteFile(NoFiles, Path, OldText),
                     WriteFile(NoFiles, Path, NewText)} :
           sv = [pc |-> "try", attempt |-> 0, clock |-> 0, cur |-> Path,
                 files |-> files, old |-> files, text |-> NewText,
                 last_err |-> "none", stuck |-> {}]
    /\ db = <<>> /\ issue_cfg = EmptyCfg /\ disk_db = <<>> /\ disk_cfg = EmptyCfg
    /\ sel = NoSel /\ nav_tree = {} /\ kw_rows = 0 /\ nops = NoOps /\ NoUi /\ removed = {}
    /\ phase = "boot" /\ last = NoLast /\ px = IdlePx

NextSave ==
    \/ MakeTmpPath \/ OpenOk \/ OpenFail \/ WriteOk \/ WriteFail
    \/ ReplaceOk \/ ReplaceFail \/ CleanupOk \/ CleanupFail \/ Backoff \/ Crash

\* the function is one sequential loop: a step that can be taken is taken
SpecSave == InitSave /\ [][NextSave]_vars /\ WF_vars(NextSave)

TempFiles == DOMAIN sv.files \ {Path}

TargetNeverPartial ==
    \/ (Path \notin DOMAIN sv.files /\ Path \notin DOMAIN sv.old)
    \/ (Path \in DOMAIN sv.files /\ Path \in DOMAIN sv.old /\ sv.files[Path] = sv.old[Path])
    \/ (Path \in DOMAIN sv.files /\ sv.files[Path] = sv.text)

\* the process stopped while the temp file held part of the text
CrashedMidWrite ==
    /\ sv.pc = "crashed"
    /\ \E n \in TempFiles : sv.files[n] # sv.text /\ sv.files[n] # <<>>
    /\ Path \in DOMAIN sv.files /\ sv.files[Path] = OldText

SvDone == sv.pc \in {"returned", "raised", "crashed"}

\* C8: a save ends; it makes at most max(1, retries) = 7 attempts, and when
\* all of them fail it raises the last error.
SaveTerminates ==
    /\ [](sv.attempt < Max(1, Retries))
    /\ [](sv.pc = "raised" => (sv.attempt = Max(1, Retries) - 1 /\ sv.last_err # "none"))
    /\ <>SvDone

\* every attempt failed and the error was raised
RaisedAfterAllAttempts == sv.pc = "raised" /\ sv.attempt = 6

---------------------------------------------------------------------------
(* normalize_keywords *)

\* a mapping item of a keyword list; each key may be absent
KwDict(summary, group, desc, description, desc_rich, parts, text) ==
    [t |-> "dict", summary |-> summary, group |-> group, desc |-> desc,
     description |-> description, desc_rich |-> desc_rich, parts |-> parts,
     text |-> text]
\* a run of desc_rich: {"text": ..., "b": ..., "c": ...}
Run(text) == [t |-> "run", text |-> text]

\* str(d.get(key, ""))
GetStr(field) == IF field.t = "absent" THEN <<>> ELSE PyStr(field)

RECURSIVE _clean_str_list_keep_order(_)
_clean_str_list_keep_order(items) ==
    IF items = <<>> THEN <<>>
    ELSE LET s == Strip(PyStr(Head(items)))
         IN  (IF s # <<>> THEN <<JStr(s)>> ELSE <<>>)
             \o _clean_str_list_keep_order(Tail(items))

RECURSIVE _desc_plain_from_rich(_)
_desc_plain_from_rich(runs) ==
    IF runs = <<>> THEN <<>>
    ELSE LET r == Head(runs)
             t == IF r.t = "run" /\ r.text.t = "str" THEN r.text.s ELSE <<>>
         IN  t \o _desc_plain_from_rich(Tail(runs))

\* a string item kept as it was read when it is not blank
NormalizeStrItemRaw(item) ==
    IF Strip(item.s) # <<>>
    THEN <<KwDict(JStr(<<>>), JStr(<<>>), JStr(<<>>), Absent, Absent, Absent, JStr(item.s))>>
    ELSE <<>>

\* lines 241-245: a legacy string item
NormalizeStrItem(item) ==
    LET t == Strip(item.s)
    IN  IF t # <<>>
        THEN <<KwDict(JStr(<<>>), JStr(<<>>), JStr(<<>>), Absent, Absent, Absent, JStr(t))>>
        ELSE <<>>

\* lines 250-272: a mapping item; the result is the list of keywords appended
NormalizeDictItem(item) ==
    LET summary == Strip(GetStr(item.summary))
        group == Strip(GetStr(item.group))
        desc_rich == item.desc_rich
        rich == desc_rich.t = "list" /\ desc_rich.l # <<>>
        desc0 == Strip(IF item.desc.t # "absent"
                       THEN PyStr(item.desc) ELSE GetStr(item.description))
        desc == IF rich /\ desc0 = <<>>
                THEN Strip(_desc_plain_from_rich(desc_rich.l)) ELSE desc0
        parts == IF item.parts.t = "list"
                 THEN _clean_str_list_keep_order(item.parts.l) ELSE <<>>
        text == Strip(GetStr(item.text))
        carried == IF rich THEN desc_rich ELSE Absent
    IN  IF item.parts.t = "list" /\ parts # <<>>
        THEN <<KwDict(JStr(summary), JStr(group), JStr(desc), Absent, carried,
                      JList(parts), Absent)>>
        ELSE IF text # <<>>
        THEN <<KwDict(JStr(summary), JStr(group), JStr(desc), Absent, carried,
                      Absent, JStr(text))>>
        ELSE <<>>

RECURSIVE normalize_keywords(_)
normalize_keywords(lst) ==
    IF lst = <<>> THEN <<>>
    ELSE LET item == Head(lst)
         IN  (IF item.t = "str" THEN NormalizeStrItem(item)
              ELSE IF item.t # "dict" THEN <<>>
              ELSE NormalizeDictItem(item))
             \o normalize_keywords(Tail(lst))

MaxKw == 2     \* items of a raw keyword list built from SmallRawItems

TxtX == <<" ", "x">>
RawMappings ==
    {KwDict(su, gr, de, dn, dr, pa, te) :
        su \in {Absent, JNull, JStr(TxtX)},
        gr \in {Absent, JStr(<<"g", " ">>)},
        de \in {Absent, JNull, JStr(<<>>), JStr(<<" ", "d">>)},
        dn \in {Absent, JStr(<<"o", " ">>)},
        dr \in {Absent, JNull, JList(<<>>), JList(<<Run(JStr(<<" ">>))>>),
                JList(<<Run(JStr(<<" ", "r">>)), JNull, Run(Absent), Run(JStr(<<"s">>))>>)},
        pa \in {Absent, JNull, JList(<<>>), JList(<<JStr(<<" ">>), JStr(<<>>)>>),
                JList(<<JNull>>),
                JList(<<JStr(<<" ", "p">>), JStr(<<>>), JStr(<<"p">>), JStr(<<"q", " ">>)>>)},
        te \in {Absent, JNull, JStr(<<" ">>), JStr(<<" ", "t", " ">>)}}

SmallRawItems ==
    {JStr(TxtX), JStr(<<" ">>), JNull,
     KwDict(Absent, Absent, Absent, JStr(<<"o", " ">>), Absent,
            JList(<<JStr(<<" ", "p">>), JStr(<<>>), JStr(<<"p">>)>>), JStr(TxtX)),
     KwDict(JStr(TxtX), Absent, Absent, Absent, JList(<<Run(JStr(<<" ", "r">>))>>),
            JList(<<JStr(<<" ">>)>>), JStr(TxtX))}

RawKwLists == {<<m>> : m \in RawMappings} \cup BSeq(SmallRawItems, MaxKw)

\* normalize_keywords applied to a raw list
Normalize ==
    /\ px.f = "raw"
    /\ px' = [f |-> "normalized", in |-> px.in, out |-> normalize_keywords(px.in)]
    /\ UNCHANGED appVars /\ UNCHANGED sv

\* normalize_keywords applied to its own result (every later read, line 1548)
Renormalize ==
    /\ px.f = "normalized"
    /\ px' = [f |-> "renormalized", in |-> px.out, out |-> normalize_keywords(px.out)]
    /\ UNCHANGED appVars /\ UNCHANGED sv

InitNorm ==
    /\ \E l \in RawKwLists : px = [f |-> "raw", in |-> l, out |-> <<>>]
    /\ db = <<>> /\ issue_cfg = EmptyCfg /\ disk_db = <<>> /\ disk_cfg = EmptyCfg
    /\ sel = NoSel /\ nav_tree = {} /\ kw_rows = 0 /\ nops = NoOps /\ NoUi /\ removed = {}
    /\ phase = "boot" /\ last = NoLast /\ sv = IdleSv

NextNorm == Normalize \/ Renormalize

SpecNorm == InitNorm /\ [][NextNorm]_vars

\* C5: normalize_keywords applied to a list it returned returns that list.
NormalizeIdempotent == px.f = "renormalized" => px.out = px.in

\* a list that the first pass changed (a trimmed part, a dropped blank, a
\* desc taken from description) has been normalized a second time
RenormalizedCleanedList ==
    /\ px.f = "renormalized"
    /\ Len(px.out) = 2
    /\ px.out[2].parts = JList(<<JStr(<<"p">>), JStr(<<"p">>)>>)
    /\ px.out[2].desc = JStr(<<"o">>)

---------------------------------------------------------------------------
(* Templates, placeholders and navigation ids *)

\* delimiter.join(parts)
RECURSIVE Join(_, _)
Join(parts, delimiter) ==
    IF parts = <<>> THEN <<>>
    ELSE IF Len(parts) = 1 THEN parts[1]
    ELSE parts[1] \o delimiter \o Join(Tail(parts), delimiter)

\* the items of a list of strings, as text
StrsOf(l) == [n \in 1..Len(l) |-> PyStr(l[n])]

keyword_joined_template(kw, delimiter) ==
    IF kw.parts.t = "list"
    THEN Join(StrsOf(_clean_str_list_keep_order(kw.parts.l)), delimiter)
    ELSE Strip(GetStr(kw.text))

\* the class [A-Za-z0-9_] of PLACEHOLDER_RE
NameChars ==
    {"A", "B", "C", "D", "E", "F", "G", "H", "I", "J", "K", "L", "M",
     "N", "O", "P", "Q", "R", "S", "T", "U", "V", "W", "X", "Y", "Z",
     "a", "b", "c", "d", "e", "f", "g", "h", "i", "j", "k", "l", "m",
     "n", "o", "p", "q", "r", "s", "t", "u", "v", "w", "x", "y", "z",
     "0", "1", "2", "3", "4", "5", "6", "7", "8", "9", "_"}

\* length of the longest run of name characters of s that starts at i
RECURSIVE NameRun(_, _)
NameRun(s, i) ==
    IF i <= Len(s) /\ s[i] \in NameChars THEN 1 + NameRun(s, i + 1) ELSE 0

\* PLACEHOLDER_RE.finditer: the names of the matches, left to right, no overlap
RECURSIVE FindPlaceholders(_, _)
FindPlaceholders(s, i) ==
    IF i > Len(s) THEN <<>>
    ELSE LET run == NameRun(s, i + 1)
         IN  IF s[i] = "{" /\ run >= 1 /\ i + run + 1 <= Len(s) /\ s[i + run + 1] = "}"
             THEN <<SubSeq(s, i + 1, i + run)>> \o FindPlaceholders(s, i + run + 2)
             ELSE FindPlaceholders(s, i + 1)

RECURSIVE FirstOccurrences(_, _)
FirstOccurrences(names, acc) ==
    IF names = <<>> THEN acc
    ELSE IF \E n \in 1..Len(acc) : acc[n] = Head(names)
         THEN FirstOccurrences(Tail(names), acc)
         ELSE FirstOccurrences(Tail(names), Append(acc, Head(names)))

\* every match gives a name, seen before or not
detect_placeholdersEveryMatch(text) == FindPlaceholders(text, 1)

detect_placeholders(text) == FirstOccurrences(FindPlaceholders(text, 1), <<>>)

StartsWith(s, p) == Len(s) >= Len(p) /\ SubSeq(s, 1, Len(p)) = p

\* s.replace(old, new) for a non-empty old: the occurrences of old found
\* left to right, none overlapping another
RECURSIVE StrReplace(_, _, _)
StrReplace(s, old, new) ==
    IF s = <<>> THEN <<>>
    ELSE IF StartsWith(s, old)
         THEN new \o StrReplace(SubSeq(s, Len(old) + 1, Len(s)), old, new)
         ELSE <<Head(s)>> \o StrReplace(Tail(s), old, new)

\* "{" + str(k) + "}"
Token(k) == <<"{">> \o k \o <<"}">>

\* the loop of lines 143-144 over params.items()
RECURSIVE ReplaceEach(_, _)
ReplaceEach(out, params) ==
    IF params = <<>> THEN out
    ELSE ReplaceEach(StrReplace(out, Token(Head(params).k), PyStr(Head(params).v)),
                     Tail(params))

render_keyword(template, params) == ReplaceEach(template, params)

\* PLACEHOLDER_RE.sub("", s): the matches found from i on are left out
RECURSIVE SubPlaceholders(_, _)
SubPlaceholders(s, i) ==
    IF i > Len(s) THEN <<>>
    ELSE LET run == NameRun(s, i + 1)
         IN  IF s[i] = "{" /\ run >= 1 /\ i + run + 1 <= Len(s) /\ s[i + run + 1] = "}"
             THEN SubPlaceholders(s, i + run + 2)
             ELSE <<s[i]>> \o SubPlaceholders(s, i + 1)

\* the first match only is left out (re.sub with count=1)
RECURSIVE SubFirstPlaceholder(_, _)
SubFirstPlaceholder(s, i) ==
    IF i > Len(s) THEN <<>>
    ELSE LET run == NameRun(s, i + 1)
         IN  IF s[i] = "{" /\ run >= 1 /\ i + run + 1 <= Len(s) /\ s[i + run + 1] = "}"
             THEN SubSeq(s, i + run + 2, Len(s))
             ELSE <<s[i]>> \o SubFirstPlaceholder(s, i + 1)

render_keyword_without_paramsFirstOnly(template) ==
    IF template = <<>> THEN <<>> ELSE SubFirstPlaceholder(template, 1)

render_keyword_without_params(template) ==
    IF template = <<>> THEN <<>> ELSE SubPlaceholders(template, 1)

\* s.split(sep) for a non-empty sep
RECURSIVE SplitFrom(_, _, _)
SplitFrom(s, sep, cur) ==
    IF s = <<>> THEN <<cur>>
    ELSE IF StartsWith(s, sep)
         THEN <<cur>> \o SplitFrom(SubSeq(s, Len(sep) + 1, Len(s)), sep, <<>>)
         ELSE SplitFrom(Tail(s), sep, Append(cur, Head(s)))

Split(s, sep) == SplitFrom(s, sep, <<>>)

\* [p.strip() for p in pieces], without the empty ones
RECURSIVE StripNonEmpty(_)
StripNonEmpty(pieces) ==
    IF pieces = <<>> THEN <<>>
    ELSE (IF Strip(Head(pieces)) # <<>> THEN <<Strip(Head(pieces))>> ELSE <<>>)
         \o StripNonEmpty(Tail(pieces))

\* a part found before is dropped
_split_by_delimiterUnique(text, delimiter) ==
    IF delimiter = <<>> THEN <<>>
    ELSE FirstOccurrences(StripNonEmpty(Split(text, delimiter)), <<>>)

\* KeywordDialog._split_by_delimiter, delimiter being self.delimiter
_split_by_delimiter(text, delimiter) ==
    IF delimiter = <<>> THEN <<>>
    ELSE StripNonEmpty(Split(text, delimiter))

\* delimiter in text
Contains(text, delimiter) ==
    \E i \in 1..(Len(text) + 1) :
        i + Len(delimiter) - 1 <= Len(text)
        /\ SubSeq(text, i, i + Len(delimiter) - 1) = delimiter

\* keyword_parts_from_kw for a keyword dict
keyword_parts_from_kw(kw, delimiter) ==
    IF kw.parts.t = "list" /\ kw.parts.l # <<>>
    THEN StrsOf(_clean_str_list_keep_order(kw.parts.l))
    ELSE LET text == Strip(GetStr(kw.text))
         IN  IF text = <<>> THEN <<>>
             ELSE IF delimiter # <<>> /\ Contains(text, delimiter)
             THEN StripNonEmpty(Split(text, delimiter))
             ELSE <<text>>

Bar == <<"|">>

_nav_iid_vendor(v) == <<"v">> \o Bar \o v
_nav_iid_issue(v, i) == <<"i">> \o Bar \o v \o Bar \o i
_nav_iid_detail(v, i, d) == <<"d">> \o Bar \o v \o Bar \o i \o Bar \o d

_parse_nav_iid(iid) ==
    LET parts == Split(iid, Bar)
        kind == parts[1]
    IN  IF kind = <<"v">> /\ Len(parts) >= 2
        THEN [kind |-> "v", v |-> parts[2], i |-> <<>>, d |-> <<>>]
        ELSE IF kind = <<"i">> /\ Len(parts) >= 3
        THEN [kind |-> "i", v |-> parts[2], i |-> parts[3], d |-> <<>>]
        ELSE IF kind = <<"d">> /\ Len(parts) >= 4
        THEN [kind |-> "d", v |-> parts[2], i |-> parts[3], d |-> parts[4]]
        ELSE [kind |-> "", v |-> <<>>, i |-> <<>>, d |-> <<>>]

---------------------------------------------------------------------------
(* KeywordGuideApp: the state a handler works on, saves, current object *)

\* F applied to the value of v, v being evaluated once
Bind(v, F(_)) == CHOOSE y \in {F(x) : x \in {v}} : TRUE

\* The fields of the application while one handler runs.  okDb and okCfg say
\* whether save_json of keywords_db.json / issues_config.json succeeds during
\* this handler; failed collects the documents whose save raised.
Cur(okDb, okCfg) ==
    [db |-> db, cfg |-> issue_cfg, sel |-> sel, ddb |-> disk_db, dcfg |-> disk_cfg,
     tree |-> nav_tree, rows |-> kw_rows, log |-> {}, okDb |-> okDb, okCfg |-> okCfg,
     failed |-> {}, ui |-> ui_state, dui |-> disk_ui, okUi |-> TRUE, fb |-> fb]

\* try: save_json(DB_PATH, self.db); log_info  except: log at level onFail
SaveDb(a0, onFail) ==
    Bind(a0, LAMBDA a :
        IF a.okDb
        THEN [a EXCEPT !.ddb = a.db, !.log = @ \cup {<<"INFO", "db">>}]
        ELSE [a EXCEPT !.log = @ \cup {<<onFail, "db">>}, !.failed = @ \cup {"db"}])

SaveCfg(a0, onFail) ==
    Bind(a0, LAMBDA a :
        IF a.okCfg
        THEN [a EXCEPT !.dcfg = a.cfg, !.log = @ \cup {<<"INFO", "cfg">>}]
        ELSE [a EXCEPT !.log = @ \cup {<<onFail, "cfg">>}, !.failed = @ \cup {"cfg"}])

\* a failed save that is written to the log as a warning only
_persist_dbWarnOnly(a) == SaveDb(a, "WARN")

_persist_db(a) == SaveDb(a, "ERROR")

_persist_issues(a0) ==
    Bind(a0, LAMBDA a :
        SaveCfg([a EXCEPT !.cfg = ensure_issue_config_vendor_scoped(a.cfg, Keys(a.db))],
                "ERROR"))

\* _sync_vendor_scoped_config_with_db with its saves (lines 1075-1086)
SyncWithSaves(a0) ==
    Bind(a0, LAMBDA a :
        Bind(_sync_vendor_scoped_config_with_db(a.cfg, a.db), LAMBDA r :
            Bind(IF r.changed_cfg
                 THEN SaveCfg([a EXCEPT !.cfg = r.cfg, !.db = r.db], "WARN")
                 ELSE [a EXCEPT !.cfg = r.cfg, !.db = r.db],
                 LAMBDA a2 : IF r.changed_db THEN SaveDb(a2, "WARN") ELSE a2)))

\* the three setdefault calls of lines 1431-1433 and 1536-1538
EnsurePath(d, v, i, c) ==
    Bind(SetDefault(d, v, <<>>), LAMBDA d1 :
        Bind(SetDefault(Get(d1, v), i, _default_issue_obj), LAMBDA dv :
            Put(d1, v, Put(dv, i, SetDefault(Get(dv, i), c, EmptyCat)))))

HasPath(d, v, i, c) ==
    HasKey(d, v) /\ HasKey(Get(d, v), i) /\ HasKey(Get(Get(d, v), i), c)
GetCat(d, v, i, c) == Get(Get(Get(d, v), i), c)
PutCat(d, v, i, c, obj) == Put(d, v, Put(Get(d, v), i, Put(Get(Get(d, v), i), c, obj)))

\* lines 1542-1550: a legacy list becomes an object; the keywords are normalized
MigrateCat(obj) ==
    IF obj.t = "list"
    THEN [t |-> "cat", keywords |-> normalize_keywords(normalize_keywords(obj.l)),
          params |-> <<>>]
    ELSE [obj EXCEPT !.keywords = normalize_keywords(obj.keywords)]

Complete(s) == s.v # <<>> /\ s.i # <<>> /\ s.d # <<>>

\* _current_obj: what it does to self.db
_current_obj(a0) ==
    Bind(a0, LAMBDA a :
        IF ~Complete(a.sel) THEN a
        ELSE Bind(EnsurePath(a.db, a.sel.v, a.sel.i, a.sel.d), LAMBDA d1 :
                 [a EXCEPT !.db = PutCat(d1, a.sel.v, a.sel.i, a.sel.d,
                                         MigrateCat(GetCat(d1, a.sel.v, a.sel.i, a.sel.d)))]))

\* the object _current_obj returns
CurObj(a0) ==
    Bind(a0, LAMBDA a :
        IF ~Complete(a.sel) THEN EmptyCat
        ELSE GetCat(_current_obj(a).db, a.sel.v, a.sel.i, a.sel.d))

\* obj[...] = ... on the object _current_obj returned; a change of the
\* temporary object returned for an incomplete selection is lost
SetCurObj(a0, obj) ==
    Bind(a0, LAMBDA a :
        IF ~Complete(a.sel) THEN a
        ELSE [a EXCEPT !.db = PutCat(a.db, a.sel.v, a.sel.i, a.sel.d, obj)])

\* after_cancel of the id kept, if any; the row kept, if it is still a row of
\* the list, shows "Copy" / "CopyNP" again
_clear_copy_feedback(a0) ==
    Bind(a0, LAMBDA a :
        [a EXCEPT !.fb = [after_id |-> 0,
                          row |-> 0,
                          pending |-> IF a.fb.after_id # 0 THEN a.fb.pending \ {a.fb.after_id}
                                      ELSE a.fb.pending,
                          ids |-> a.fb.ids,
                          copied |-> IF a.fb.row # 0 /\ a.fb.row <= a.rows
                                     THEN a.fb.copied \ {a.fb.row}
                                     ELSE a.fb.copied]])

\* the row shows "Copied" and after() schedules the reset under a new id
ShowCopied(a, row) ==
    [a EXCEPT !.fb = [after_id |-> a.fb.ids + 1,
                      row |-> row,
                      pending |-> a.fb.pending \cup {a.fb.ids + 1},
                      ids |-> a.fb.ids + 1,
                      copied |-> a.fb.copied \cup {row}]]

\* schedules the reset without cancelling the one pending
_show_copy_feedbackNoCancel(a, row) == ShowCopied(a, row)

_show_copy_feedback(a, row) == ShowCopied(_clear_copy_feedback(a), row)

\* refresh_keywords: the feedback is cleared, the rows are deleted and the list
\* shows one row for each keyword of the current object
refresh_keywords(a0) ==
    Bind(_current_obj(_clear_copy_feedback(a0)), LAMBDA a :
        [a EXCEPT !.rows = Len(CurObj(a).keywords), !.fb.copied = {}])

\* refresh_keywords, refresh_params, clear_inline, log_info
refresh_all(a) == [refresh_keywords(a) EXCEPT !.log = @ \cup {<<"INFO", "selected">>}]

_ensure_path_exists(a0, v, i, d) ==
    Bind(a0, LAMBDA a :
        IF v = <<>> \/ i = <<>> \/ d = <<>> THEN a
        ELSE SyncWithSaves([a EXCEPT !.db = EnsurePath(a.db, v, i, d)]))

InSeq(x, q) == \E n \in 1..Len(q) : q[n] = x

\* list(self.db.get(v, {}).get(i, {}).keys())
DetailsOf(d, v, i) ==
    IF HasKey(d, v) /\ HasKey(Get(d, v), i) THEN Keys(Get(Get(d, v), i)) ELSE <<>>

\* _get_vendor_issues(v), or the DB keys of v when the list is empty
IssuesOrKeys(a, v) ==
    Bind(StrsOf(_get_vendor_issues(a.cfg, v)), LAMBDA issues :
        IF issues # <<>> THEN issues
        ELSE IF HasKey(a.db, v) THEN Keys(Get(a.db, v)) ELSE <<>>)

FirstDetail(details) ==
    IF InSeq(COMMON, details) THEN COMMON
    ELSE IF details # <<>> THEN details[1] ELSE COMMON

\* the issue and the category that selecting the node p sets (lines 1387-1423)
SelectionFor(a, p) ==
    Bind(IssuesOrKeys(a, p.v), LAMBDA issues :
        Bind(IF p.kind = "v"
             THEN IF InSeq(a.sel.i, issues) THEN a.sel.i
                  ELSE IF issues # <<>> THEN issues[1] ELSE <<>>
             ELSE p.i,
             LAMBDA ni :
                [v |-> p.v, i |-> ni,
                 d |-> IF p.kind = "d" THEN p.d
                       ELSE FirstDetail(DetailsOf(a.db, p.v, ni))]))

_apply_nav_selection(a0, nav_iid) ==
    Bind(a0, LAMBDA a :
        Bind(_parse_nav_iid(nav_iid), LAMBDA p :
            IF p.kind = "" THEN a
            ELSE Bind(SelectionFor(a, p), LAMBDA s :
                     refresh_all(_ensure_path_exists([a EXCEPT !.sel = s],
                                                     s.v, s.i, s.d)))))

---------------------------------------------------------------------------
(* KeywordGuideApp.build_nav_tree *)

\* the issues one vendor shows (lines 1308-1310), as list items
ShownIssues(cfg, d, v) ==
    Bind(_get_vendor_issues(cfg, v), LAMBDA l :
        IF l # <<>> THEN l
        ELSE [n \in 1..Len(Get(d, v)) |-> JStr(Keys(Get(d, v))[n])])

\* the node ids inserted for the DB d and the config cfg (lines 1304-1323)
NavNodes(cfg, d) ==
    UNION {
        Bind(ShownIssues(cfg, d, v), LAMBDA shown :
            {_nav_iid_vendor(v)}
            \cup UNION {
                {_nav_iid_issue(v, i)}
                \cup {_nav_iid_detail(v, i, c) : c \in KeySet(Get(Get(d, v), i))} :
                i \in {PyStr(shown[n]) : n \in 1..Len(shown)}}) :
        v \in KeySet(d)}

\* restore_path resolved to a node of the tree (lines 1326-1339); <<>> is None
RestoreTarget(tree, r) ==
    IF Complete(r) /\ _nav_iid_detail(r.v, r.i, r.d) \in tree
    THEN _nav_iid_detail(r.v, r.i, r.d)
    ELSE IF r.v # <<>> /\ r.i # <<>> /\ _nav_iid_issue(r.v, r.i) \in tree
    THEN _nav_iid_issue(r.v, r.i)
    ELSE IF r.v # <<>> /\ _nav_iid_vendor(r.v) \in tree
    THEN _nav_iid_vendor(r.v)
    ELSE <<>>

\* the default selection (lines 1350-1366): first vendor, first issue
DefaultTarget(a) ==
    Bind(IssuesOrKeys(a, Keys(a.db)[1]), LAMBDA issues :
        IF issues = <<>> THEN <<>>
        ELSE LET v == Keys(a.db)[1]
                 i == issues[1]
                 d == FirstDetail(DetailsOf(a.db, v, i))
             IN  IF _nav_iid_detail(v, i, d) \in a.tree
                 THEN _nav_iid_detail(v, i, d)
                 ELSE _nav_iid_issue(v, i))

\* lines 1296-1323: the default DB if there is no vendor, ensure, the nodes,
\* an issue object for every issue shown
RebuildNodes(a) ==
    Bind(IF a.db = <<>> THEN _default_db ELSE a.db, LAMBDA d0 :
        Bind(ensure_issue_config_vendor_scoped(a.cfg, Keys(d0)), LAMBDA cfg1 :
            Bind([n \in 1..Len(d0) |->
                     [k |-> d0[n].k,
                      v |-> CreateMissing(d0[n].v, ShownIssues(cfg1, d0, d0[n].k))]],
                 LAMBDA d1 :
                    [a EXCEPT !.db = d1, !.cfg = cfg1, !.tree = NavNodes(cfg1, d1)])))

\* build_nav_tree(select_default=True, restore_path=restore); a restore path
\* of empty strings selects what None selects
build_nav_tree(a0, restore) ==
    Bind(a0, LAMBDA a :
        Bind(RebuildNodes(a), LAMBDA a1 :
            Bind(RestoreTarget(a1.tree, restore), LAMBDA target :
                IF target # <<>> THEN _apply_nav_selection(a1, target)
                ELSE Bind(DefaultTarget(a1), LAMBDA deflt :
                         IF deflt # <<>> THEN _apply_nav_selection(a1, deflt) ELSE a1))))

---------------------------------------------------------------------------
(* KeywordGuideApp: the handlers, as functions of the state they work on *)

Unchanged(a) == [a |-> a, mutated |-> FALSE]
Mutated(a) == [a |-> a, mutated |-> TRUE]
PathOf(v, i, d) == [v |-> v, i |-> i, d |-> d]

\* a click in the keyword list at the row (0: below the rows) and the column col
on_tree_click(a, row, col) ==
    IF row = 0 \/ col = "#0" THEN Unchanged(a)
    ELSE Bind(_current_obj(a), LAMBDA a1 :
             IF row > Len(CurObj(a).keywords) THEN Unchanged(a1)
             ELSE IF col \in {"#4", "#5"}
             THEN Mutated([_show_copy_feedback(a1, row)
                              EXCEPT !.log = @ \cup {<<"INFO", "copied">>}])
             ELSE Unchanged(a1))

\* add_issue putting the name first in the list instead of last (line 2248)
add_issueFirst(a, raw) ==
    LET v == a.sel.v
        name == Strip(raw)
        issues == _get_vendor_issues(a.cfg, v)
    IN  IF v = <<>> \/ name = <<>> \/ InSeq(JStr(name), issues) THEN Unchanged(a)
        ELSE Bind(_persist_issues(
                      [a EXCEPT !.cfg = _set_vendor_issues(a.cfg, v,
                                                          <<JStr(name)>> \o issues)]),
                  LAMBDA a1 :
                    Bind(SetDefault(a1.db, v, <<>>), LAMBDA d1 :
                        Mutated(build_nav_tree(
                            _persist_db(
                                [a1 EXCEPT !.db = Put(d1, v, SetDefault(Get(d1, v), name,
                                                                        _default_issue_obj))]),
                            PathOf(v, name, COMMON)))))

add_issue(a, raw) ==
    LET v == a.sel.v
        name == Strip(raw)
        issues == _get_vendor_issues(a.cfg, v)
    IN  IF v = <<>> \/ name = <<>> \/ InSeq(JStr(name), issues) THEN Unchanged(a)
        ELSE Bind(_persist_issues(
                      [a EXCEPT !.cfg = _set_vendor_issues(a.cfg, v,
                                                          Append(issues, JStr(name)))]),
                  LAMBDA a1 :
                    Bind(SetDefault(a1.db, v, <<>>), LAMBDA d1 :
                        Mutated(build_nav_tree(
                            _persist_db(
                                [a1 EXCEPT !.db = Put(d1, v, SetDefault(Get(d1, v), name,
                                                                        _default_issue_obj))]),
                            PathOf(v, name, COMMON)))))

\* delete_issue without the del of line 2281
delete_issueKeepsKey(a, confirm) ==
    LET v == a.sel.v
        cur == a.sel.i
        issues == _get_vendor_issues(a.cfg, v)
        kept == SelectSeq(issues, LAMBDA x : x # JStr(cur))
    IN  IF v = <<>> \/ cur = <<>> \/ ~InSeq(JStr(cur), issues) \/ Len(issues) <= 1
           \/ ~confirm
        THEN Unchanged(a)
        ELSE Bind(_persist_issues([a EXCEPT !.cfg = _set_vendor_issues(a.cfg, v, kept)]),
                  LAMBDA a1 :
                    Mutated(build_nav_tree(_persist_db(a1), PathOf(v, PyStr(kept[1]), COMMON))))

delete_issue(a, confirm) ==
    LET v == a.sel.v
        cur == a.sel.i
        issues == _get_vendor_issues(a.cfg, v)
        kept == SelectSeq(issues, LAMBDA x : x # JStr(cur))
    IN  IF v = <<>> \/ cur = <<>> \/ ~InSeq(JStr(cur), issues) \/ Len(issues) <= 1
           \/ ~confirm
        THEN Unchanged(a)
        ELSE Bind(_persist_issues([a EXCEPT !.cfg = _set_vendor_issues(a.cfg, v, kept)]),
                  LAMBDA a1 :
                    Mutated(build_nav_tree(
                        _persist_db(
                            [a1 EXCEPT !.db = IF HasKey(a1.db, v)
                                              THEN Put(a1.db, v, Del(Get(a1.db, v), cur))
                                              ELSE a1.db]),
                        PathOf(v, PyStr(kept[1]), COMMON))))

\* rename_issue that puts an empty issue under the new name (line 2318)
\* instead of the subtree of the old one
rename_issueEmpty(a, raw) ==
    LET v == a.sel.v
        cur == a.sel.i
        new == Strip(raw)
        issues == _get_vendor_issues(a.cfg, v)
        renamed == [n \in 1..Len(issues) |->
                       IF issues[n] = JStr(cur) THEN JStr(new) ELSE issues[n]]
    IN  IF v = <<>> \/ cur = <<>> \/ ~InSeq(JStr(cur), issues) \/ new = <<>>
           \/ new = cur \/ InSeq(JStr(new), issues)
        THEN Unchanged(a)
        ELSE Bind(_persist_issues([a EXCEPT !.cfg = _set_vendor_issues(a.cfg, v, renamed)]),
                  LAMBDA a1 :
                    Bind(SetDefault(a1.db, v, <<>>), LAMBDA d1 :
                        Mutated(build_nav_tree(
                            _persist_db([a1 EXCEPT !.db =
                                Put(d1, v, Put(Del(Get(d1, v), cur), new, _default_issue_obj))]),
                            PathOf(v, new, COMMON)))))

rename_issue(a, raw) ==
    LET v == a.sel.v
        cur == a.sel.i
        new == Strip(raw)
        issues == _get_vendor_issues(a.cfg, v)
        renamed == [n \in 1..Len(issues) |->
                       IF issues[n] = JStr(cur) THEN JStr(new) ELSE issues[n]]
    IN  IF v = <<>> \/ cur = <<>> \/ ~InSeq(JStr(cur), issues) \/ new = <<>>
           \/ new = cur \/ InSeq(JStr(new), issues)
        THEN Unchanged(a)
        ELSE Bind(_persist_issues([a EXCEPT !.cfg = _set_vendor_issues(a.cfg, v, renamed)]),
                  LAMBDA a1 :
                    Bind(SetDefault(a1.db, v, <<>>), LAMBDA d1 :
                        LET dv == Get(d1, v)
                            dv2 == IF HasKey(dv, cur)
                                   THEN Put(Del(dv, cur), new, Get(dv, cur))
                                   ELSE Put(dv, new, _default_issue_obj)
                        IN  Mutated(build_nav_tree(
                                _persist_db([a1 EXCEPT !.db = Put(d1, v, dv2)]),
                                PathOf(v, new, COMMON)))))

add_category(a, raw) ==
    LET v == a.sel.v
        i == a.sel.i
        name == Strip(raw)
    IN  IF v = <<>> \/ i = <<>> \/ name = <<>> THEN Unchanged(a)
        ELSE Bind(SetDefault(a.db, v, <<>>), LAMBDA d1 :
                 Bind(Put(d1, v, SetDefault(Get(d1, v), i, _default_issue_obj)), LAMBDA d2 :
                     LET cats == Get(Get(d2, v), i)
                     IN  IF HasKey(cats, name) THEN Unchanged([a EXCEPT !.db = d2])
                         ELSE Mutated(build_nav_tree(
                                  _persist_db(
                                      [a EXCEPT !.db = Put(d2, v, Put(Get(d2, v), i,
                                                                     Put(cats, name, EmptyCat)))]),
                                  PathOf(v, i, name)))))

\* delete_category without the check of line 2187
delete_categoryAnyName(a, confirm) ==
    LET v == a.sel.v
        i == a.sel.i
        d == a.sel.d
    IN  IF ~Complete(a.sel) \/ ~confirm \/ ~HasPath(a.db, v, i, d)
        THEN Unchanged(a)
        ELSE Bind(Del(Get(Get(a.db, v), i), d), LAMBDA cats :
                 Mutated(build_nav_tree(
                     _persist_db([a EXCEPT !.db = Put(a.db, v, Put(Get(a.db, v), i, cats))]),
                     PathOf(v, i, FirstDetail(Keys(cats))))))

delete_category(a, confirm) ==
    LET v == a.sel.v
        i == a.sel.i
        d == a.sel.d
    IN  IF ~Complete(a.sel) \/ d = COMMON \/ ~confirm \/ ~HasPath(a.db, v, i, d)
        THEN Unchanged(a)
        ELSE Bind(Del(Get(Get(a.db, v), i), d), LAMBDA cats :
                 Mutated(build_nav_tree(
                     _persist_db([a EXCEPT !.db = Put(a.db, v, Put(Get(a.db, v), i, cats))]),
                     PathOf(v, i, FirstDetail(Keys(cats))))))

rename_category(a, raw) ==
    LET v == a.sel.v
        i == a.sel.i
        d == a.sel.d
        new == Strip(raw)
    IN  IF ~Complete(a.sel) \/ d = COMMON \/ new = <<>> \/ ~HasPath(a.db, v, i, d)
        THEN Unchanged(a)
        ELSE Bind(Get(Get(a.db, v), i), LAMBDA cats :
                 IF HasKey(cats, new) THEN Unchanged(a)
                 ELSE Mutated(build_nav_tree(
                          _persist_db(
                              [a EXCEPT !.db = Put(a.db, v, Put(Get(a.db, v), i,
                                                   Put(Del(cats, d), new, Get(cats, d))))]),
                          PathOf(v, i, new))))

\* every name is set to "", the ones the params hold too
RECURSIVE SetDefaultsOverwrite(_, _)
SetDefaultsOverwrite(params, names) ==
    IF names = <<>> THEN params
    ELSE SetDefaultsOverwrite(Put(params, Head(names), <<>>), Tail(names))

\* obj["_params"].setdefault(p, "") for each placeholder (lines 1657-1658)
RECURSIVE SetDefaults(_, _)
SetDefaults(params, names) ==
    IF names = <<>> THEN params
    ELSE SetDefaults(SetDefault(params, Head(names), <<>>), Tail(names))

\* the placeholders of the keyword kw of the vendor selected in a
PlaceholdersOf(a, kw) ==
    detect_placeholders(keyword_joined_template(kw, _get_vendor_delimiter(a.cfg, a.sel.v)))

\* the row idx (from 1) of the keyword list is selected
on_keyword_select(a, idx) ==
    Bind(_current_obj(a), LAMBDA a1 :
        Bind(CurObj(a), LAMBDA obj :
            IF idx < 1 \/ idx > Len(obj.keywords) THEN Unchanged(a1)
            ELSE Bind(PlaceholdersOf(a, obj.keywords[idx]), LAMBDA placeholders :
                     IF placeholders = <<>> THEN Unchanged(a1)
                     ELSE Mutated(_current_obj(
                              SetCurObj(a1, [obj EXCEPT
                                                !.params = SetDefaults(@, placeholders)]))))))

AsJList(strs) == JList([n \in 1..Len(strs) |-> JStr(strs[n])])

\* the entries stripped, the blank ones kept
_get_partsKeepBlank(entries) == [n \in 1..Len(entries) |-> Strip(entries[n])]

\* KeywordDialog._get_parts: the texts of the part entries, stripped, the
\* blank ones dropped
_get_parts(entries) ==
    SelectSeq([n \in 1..Len(entries) |-> Strip(entries[n])], LAMBDA p : p # <<>>)

\* KeywordDialog._ok pressed with these part entries, the other fields empty:
\* dlg.result, which stays None (JNull) when no part is left
_ok(entries) ==
    IF _get_parts(entries) = <<>> THEN JNull
    ELSE KwDict(JStr(<<>>), JStr(<<>>), JStr(<<>>), Absent, JList(<<>>),
                AsJList(_get_parts(entries)), Absent)

\* dlg.result of the Add Keyword dialog is kw
add_keyword(a, kw) ==
    IF a.sel.v = <<>> \/ kw = JNull THEN Unchanged(a)
    ELSE Bind(_current_obj(a), LAMBDA a1 :
             Bind(CurObj(a), LAMBDA obj :
                 Mutated(refresh_keywords(_persist_db(
                     SetCurObj(a1, [obj EXCEPT !.keywords = Append(@, kw)]))))))

\* the row idx (from 1; 0: none) is selected, dlg.result of the Edit Keyword
\* dialog is kw; obj["_keywords"][idx] raises for a row the list has not
edit_keyword(a, idx, kw) ==
    IF idx = 0 THEN Unchanged(a)
    ELSE Bind(_current_obj(a), LAMBDA a1 :
             Bind(CurObj(a), LAMBDA obj :
                 IF idx > Len(obj.keywords) \/ kw = JNull THEN Unchanged(a1)
                 ELSE Mutated(refresh_keywords(_persist_db(
                          SetCurObj(a1, [obj EXCEPT !.keywords[idx] = kw]))))))

add_param(a, raw, val) ==
    IF Strip(raw) = <<>> THEN Unchanged(a)
    ELSE Bind(_current_obj(a), LAMBDA a1 :
             Bind(CurObj(a), LAMBDA obj :
                 IF HasKey(obj.params, Strip(raw)) THEN Unchanged(a1)
                 ELSE Mutated(_current_obj(_persist_db(
                          SetCurObj(a1, [obj EXCEPT !.params = Put(@, Strip(raw), val)]))))))

\* the row pname of the param list is selected (<<>>: none)
remove_param(a, pname, confirm) ==
    IF pname = <<>> THEN Unchanged(a)
    ELSE Bind(_current_obj(a), LAMBDA a1 :
             Bind(CurObj(a), LAMBDA obj :
                 IF ~HasKey(obj.params, pname) \/ ~confirm THEN Unchanged(a1)
                 ELSE Mutated(_current_obj(_persist_db(
                          SetCurObj(a1, [obj EXCEPT !.params = Del(@, pname)]))))))

\* Apply of the inline box: obj["_params"][key] = value
apply_inline_param(a, key, value) ==
    Bind(_current_obj(a), LAMBDA a1 :
        Bind(CurObj(a), LAMBDA obj :
            Mutated(_current_obj(_persist_db(
                SetCurObj(a1, [obj EXCEPT !.params = Put(@, key, value)]))))))

\* Return in the editor opened on the value of the row editing_key
_commit_param_edit(a, editing_key, new_val) ==
    IF editing_key = <<>> THEN Unchanged(a)
    ELSE Bind(_current_obj(a), LAMBDA a1 :
             Bind(CurObj(a), LAMBDA obj :
                 Mutated(_current_obj(_persist_db(
                     SetCurObj(a1, [obj EXCEPT !.params = Put(@, editing_key, new_val)]))))))

EXPORT_SCHEMA == <<"K", "G", "E">>   \* "KeywordGuideExport"

\* an import file that holds a JSON object
Package(schema, d, cfg, ui) ==
    [t |-> "dict", schema |-> schema, db |-> d, issue_cfg |-> cfg, ui_state |-> ui]

\* accepts a package whatever its schema
validate_import_packageAnySchema(pkg) ==
    IF pkg.t # "dict" THEN [ok |-> FALSE, msg |-> "not a JSON object"]
    ELSE IF pkg.db = Absent \/ pkg.issue_cfg = Absent
    THEN [ok |-> FALSE, msg |-> "missing required keys"]
    ELSE IF pkg.db.t # "dict" THEN [ok |-> FALSE, msg |-> "db must be a dict"]
    ELSE IF pkg.issue_cfg.t # "dict" THEN [ok |-> FALSE, msg |-> "issue_cfg must be a dict"]
    ELSE [ok |-> TRUE, msg |-> "OK"]

validate_import_package(pkg) ==
    IF pkg.t # "dict" THEN [ok |-> FALSE, msg |-> "not a JSON object"]
    ELSE IF pkg.schema # JStr(EXPORT_SCHEMA) THEN [ok |-> FALSE, msg |-> "invalid schema"]
    ELSE IF pkg.db = Absent \/ pkg.issue_cfg = Absent
    THEN [ok |-> FALSE, msg |-> "missing required keys"]
    ELSE IF pkg.db.t # "dict" THEN [ok |-> FALSE, msg |-> "db must be a dict"]
    ELSE IF pkg.issue_cfg.t # "dict" THEN [ok |-> FALSE, msg |-> "issue_cfg must be a dict"]
    ELSE [ok |-> TRUE, msg |-> "OK"]

\* no file chosen in the dialog; a file that cannot be read or parsed
NoFile == [t |-> "nofile"]
Unreadable == [t |-> "unreadable"]

\* the package, or JNull; file is NoFile, Unreadable or the JSON value read
_load_import_file(a, file) ==
    IF file = NoFile THEN [a |-> a, pkg |-> JNull]
    ELSE IF file = Unreadable
    THEN [a |-> [a EXCEPT !.log = @ \cup {<<"ERROR", "read">>}], pkg |-> JNull]
    ELSE Bind(validate_import_package(file), LAMBDA r :
             IF ~r.ok
             THEN [a |-> [a EXCEPT !.log = @ \cup {<<"ERROR", "invalid", r.msg>>}],
                   pkg |-> JNull]
             ELSE [a |-> a, pkg |-> file])

\* the handler stops at the save_json that raises (lines 2407-2410, 2416-2418)
ImportRaised(a, doc) ==
    [a EXCEPT !.log = @ \cup {<<"ERROR", "import">>}, !.failed = @ \cup {doc}]

\* isinstance(new_ui, dict) and new_ui
NewUi(a, pkg) ==
    IF pkg.ui_state.t = "dict" /\ pkg.ui_state.d # <<>> THEN pkg.ui_state.d ELSE a.ui

\* lines 2393-2415, pkg having passed validate_import_package
ReplaceAll(a, pkg) ==
    Bind(SyncWithSaves(
             [a EXCEPT !.db = pkg.db.d,
                       !.cfg = ensure_issue_config_vendor_scoped(pkg.issue_cfg.d,
                                                                 Keys(pkg.db.d)),
                       !.ui = NewUi(a, pkg)]),
         LAMBDA a1 :
            IF ~a1.okDb THEN ImportRaised(a1, "db")
            ELSE IF ~a1.okCfg THEN ImportRaised([a1 EXCEPT !.ddb = a1.db], "cfg")
            ELSE IF ~a1.okUi
            THEN ImportRaised([a1 EXCEPT !.ddb = a1.db, !.dcfg = a1.cfg], "ui")
            ELSE [refresh_all(build_nav_tree(
                      [a1 EXCEPT !.ddb = a1.db, !.dcfg = a1.cfg, !.dui = a1.ui], NoSel))
                      EXCEPT !.log = @ \cup {<<"INFO", "import">>}])

\* file is what the file dialog and the read give, confirm the answer to the
\* notice
import_data_replace(a, file, confirm) ==
    Bind(_load_import_file(a, file), LAMBDA r :
        IF r.pkg = JNull THEN Unchanged(r.a)
        ELSE IF ~confirm
        THEN Unchanged([r.a EXCEPT !.log = @ \cup {<<"INFO", "cancelled">>}])
        ELSE Mutated(ReplaceAll(r.a, r.pkg)))

---------------------------------------------------------------------------
(* KeywordGuideApp: start and user operations *)

MaxOps == 2         \* user operations handled after the start
MaxSaveFail == 1    \* handlers during which saves fail

\* the keys of ui_state that the application reads and writes
GEOMETRY == <<"g">>
NAV_PATH == <<"n">>

\* {"vendor": ..., "issue": ..., "detail": ...}
NavPath(s) == [t |-> "nav_path", vendor |-> s.v, issue |-> s.i, detail |-> s.d]

\* the restore path of _init_nav_default_selection (lines 1369-1373); NoSel
\* is None
RestorePath(ui) ==
    IF HasKey(ui, NAV_PATH) /\ Get(ui, NAV_PATH).t = "nav_path"
    THEN [v |-> Get(ui, NAV_PATH).vendor, i |-> Get(ui, NAV_PATH).issue,
          d |-> Get(ui, NAV_PATH).detail]
    ELSE NoSel

\* lines 895-938
__init__(a) ==
    Bind(IF load_json(a.ddb) = <<>> THEN _default_db ELSE load_json(a.ddb), LAMBDA d :
        Bind(build_nav_tree(
                 SyncWithSaves(
                     [a EXCEPT !.db = d,
                               !.ui = load_json(a.dui),
                               !.cfg = ensure_issue_config_vendor_scoped(load_json(a.dcfg),
                                                                         Keys(d)),
                               !.sel = NoSel,
                               !.tree = {},
                               !.rows = 0,
                               !.fb = IdleFb]),
                 RestorePath(load_json(a.dui))),
             LAMBDA a1 :
                [_persist_db(_current_obj(a1)) EXCEPT !.log = @ \cup {<<"INFO", "started">>}]))

\* try: save_json(UI_STATE_PATH, state)  except: log_error (lines 2470-2474)
SaveUiState(a0, state) ==
    Bind(a0, LAMBDA a :
        IF a.okUi
        THEN [a EXCEPT !.dui = state, !.log = @ \cup {<<"INFO", "ui">>}]
        ELSE [a EXCEPT !.log = @ \cup {<<"ERROR", "ui">>}, !.failed = @ \cup {"ui"}])

\* the state of lines 2460-2468: the geometry of the window and the
\* selection; the column widths are not followed
CloseState(a, geometry) ==
    <<[k |-> GEOMETRY, v |-> JStr(geometry)], [k |-> NAV_PATH, v |-> NavPath(a.sel)]>>

\* on_close whose saves are not guarded: the first save that raises ends
\* the handler, the window stays
on_closeUnguarded(a, geometry) ==
    IF ~a.okUi
    THEN [a |-> SaveUiState(a, CloseState(a, geometry)), destroyed |-> FALSE]
    ELSE IF ~a.okDb
    THEN [a |-> SaveDb(SaveUiState(a, CloseState(a, geometry)), "ERROR"),
          destroyed |-> FALSE]
    ELSE [a |-> _persist_issues(SaveDb(SaveUiState(a, CloseState(a, geometry)), "ERROR")),
          destroyed |-> a.okCfg]

\* lines 2459-2483; destroyed: self.destroy() was reached
on_close(a, geometry) ==
    [a |-> _persist_issues(SaveDb(SaveUiState(a, CloseState(a, geometry)), "ERROR")),
     destroyed |-> TRUE]

\* the documents in memory and on disk
Docs == [db |-> db, cfg |-> issue_cfg, ddb |-> disk_db, dcfg |-> disk_cfg,
         ui |-> ui_state, dui |-> disk_ui]

\* the issue i of the vendor v is in the Config list or in the Catalog
HasIssue(cfg, d, v, i) ==
    \/ InSeq(JStr(i), _get_vendor_issues(cfg, v))
    \/ (HasKey(d, v) /\ HasKey(Get(d, v), i))

\* the handlers by which the user adds an issue: under a new name, under the
\* new name of another one, with an imported Catalog
AddingSteps == {"add_issue", "rename_issue", "import"}

\* The handler ends in the state a.  okDb and okCfg are only chosen false in
\* a handler that does save the document.  confirm is the answer the user
\* gives to the handler's askyesno.  The record last keeps what the handler
\* did and the documents as they were when it began; nops.ops counts the
\* operations that changed the state of the application.
CommitRow(a, step, mutated, arg, confirm, row) ==
    /\ (~a.okDb => "db" \in a.failed)
    /\ (~a.okCfg => "cfg" \in a.failed)
    /\ (~a.okUi => "ui" \in a.failed)
    /\ (a.failed # {} => nops.fails < MaxSaveFail)
    /\ db' = a.db
    /\ issue_cfg' = a.cfg
    /\ sel' = a.sel
    /\ nav_tree' = a.tree
    /\ kw_rows' = a.rows
    /\ disk_db' = a.ddb
    /\ disk_cfg' = a.dcfg
    /\ ui_state' = a.ui
    /\ disk_ui' = a.dui
    /\ fb' = a.fb
    /\ nops' = [max |-> nops.max,
                ops |-> nops.ops
                         + (IF step = "startup"
                               \/ <<a.db, a.cfg, a.sel, a.ddb, a.dcfg, a.tree, a.rows,
                                     a.ui, a.dui, a.fb>>
                                      = <<db, issue_cfg, sel, disk_db, disk_cfg, nav_tree,
                                          kw_rows, ui_state, disk_ui, fb>>
                            THEN 0 ELSE 1),
                fails |-> nops.fails + (IF a.failed # {} THEN 1 ELSE 0)]
    /\ removed' = IF step = "delete_issue" /\ mutated
                  THEN removed \cup {<<sel.v, sel.i>>}
                  ELSE IF step \in AddingSteps /\ mutated
                  THEN {p \in removed : ~HasIssue(a.cfg, a.db, p[1], p[2])}
                  ELSE removed
    /\ last' = [NoLast EXCEPT !.step = step, !.log = a.log, !.mutated = mutated,
                              !.arg = arg, !.at = sel, !.failed = a.failed,
                              !.mem_db = (a.db # db), !.mem_cfg = (a.cfg # issue_cfg),
                              !.confirm = confirm, !.pre = Docs, !.row = row]
    /\ UNCHANGED <<sv, px>>

CommitAsked(a, step, mutated, arg, confirm) == CommitRow(a, step, mutated, arg, confirm, 0)
Commit(a, step, mutated, arg) == CommitAsked(a, step, mutated, arg, FALSE)

\* the main loop is idle: the handler before has returned
Running == phase = "running" /\ nops.ops < nops.max /\ last = NoLast

\* the handler returns to the main loop
Returned ==
    /\ phase = "running"
    /\ last # NoLast
    /\ last' = NoLast
    /\ UNCHANGED <<db, issue_cfg, disk_db, disk_cfg, sel, nav_tree, kw_rows, nops, removed,
                   phase,
                   uiVars, sv, px>>

Startup ==
    /\ phase = "boot"
    /\ \E okDb, okCfg \in BOOLEAN :
         \E a \in {__init__(Cur(okDb, okCfg))} : Commit(a, "startup", FALSE, <<>>)
    /\ phase' = "running"

\* names typed into a dialog: cancelled or empty, a name in use at the start,
\* a new name with outer whitespace
InputNames == {<<>>, NameA, <<" ", "B">>}

\* on_nav_select: a node of the tree is selected
NavSelect ==
    /\ Running
    /\ \E iid \in nav_tree, okDb, okCfg \in BOOLEAN :
         \E a \in {_apply_nav_selection(Cur(okDb, okCfg), iid)} :
            Commit(a, "nav_select", FALSE, iid)
    /\ UNCHANGED phase

\* add_issue with one of names typed into the dialog
AddIssueNamed(names) ==
    /\ Running
    /\ \E raw \in names, okDb, okCfg \in BOOLEAN :
         \E r \in {add_issue(Cur(okDb, okCfg), raw)} :
            Commit(r.a, "add_issue", r.mutated, Strip(raw))
    /\ UNCHANGED phase

AddIssue == AddIssueNamed(InputNames)

DeleteIssue ==
    /\ Running
    /\ \E confirm, okDb, okCfg \in BOOLEAN :
         \E r \in {delete_issue(Cur(okDb, okCfg), confirm)} :
            CommitAsked(r.a, "delete_issue", r.mutated, sel.i, confirm)
    /\ UNCHANGED phase

RenameIssue ==
    /\ Running
    /\ \E raw \in InputNames, okDb, okCfg \in BOOLEAN :
         \E r \in {rename_issue(Cur(okDb, okCfg), raw)} :
            Commit(r.a, "rename_issue", r.mutated, Strip(raw))
    /\ UNCHANGED phase

\* add_category with one of names typed into the dialog
AddCategoryNamed(names) ==
    /\ Running
    /\ \E raw \in names, okDb, okCfg \in BOOLEAN :
         \E r \in {add_category(Cur(okDb, okCfg), raw)} :
            Commit(r.a, "add_category", r.mutated, Strip(raw))
    /\ UNCHANGED phase

AddCategory == AddCategoryNamed(InputNames)

DeleteCategory ==
    /\ Running
    /\ \E confirm, okDb, okCfg \in BOOLEAN :
         \E r \in {delete_category(Cur(okDb, okCfg), confirm)} :
            CommitAsked(r.a, "delete_category", r.mutated, sel.d, confirm)
    /\ UNCHANGED phase

RenameCategory ==
    /\ Running
    /\ \E raw \in InputNames, okDb, okCfg \in BOOLEAN :
         \E r \in {rename_category(Cur(okDb, okCfg), raw)} :
            Commit(r.a, "rename_category", r.mutated, Strip(raw))
    /\ UNCHANGED phase

\* on_keyword_select: a row of the keyword list is selected
KeywordSelect ==
    /\ Running
    /\ \E idx \in 1..kw_rows, okDb, okCfg \in BOOLEAN :
         \E r \in {on_keyword_select(Cur(okDb, okCfg), idx)} :
            CommitRow(r.a, "keyword_select", r.mutated, <<>>, FALSE, idx)
    /\ UNCHANGED phase

PartC == <<"{", "C", "}">>
PartD == <<"{", "D", "}">>
\* the part entries of the keyword dialog when OK is pressed: the one blank
\* entry the dialog opens with; three parts and a blank entry between them,
\* one part twice, one a placeholder with outer whitespace
EnteredParts ==
    {<< <<>> >>,
     << <<"X">>, <<>>, <<" ">> \o PartD \o <<" ">>, <<"X">> >>}

\* add_keyword; OK is pressed with the entries entered, and a dialog that
\* turns them down is closed
AddKeyword ==
    /\ Running
    /\ \E entered \in EnteredParts, okDb, okCfg \in BOOLEAN :
         \E r \in {add_keyword(Cur(okDb, okCfg), _ok(entered))} :
            Commit(r.a, "add_keyword", r.mutated, entered)
    /\ UNCHANGED phase

\* edit_keyword on the selected row of the keyword list
EditKeyword ==
    /\ Running
    /\ \E idx \in 0..kw_rows, entered \in EnteredParts, okDb, okCfg \in BOOLEAN :
         \E r \in {edit_keyword(Cur(okDb, okCfg), idx, _ok(entered))} :
            CommitRow(r.a, "edit_keyword", r.mutated, entered, FALSE, idx)
    /\ UNCHANGED phase

AddParam ==
    /\ Running
    /\ \E raw \in {<<>>, <<" ", "C">>}, val \in {<<"1">>}, okDb, okCfg \in BOOLEAN :
         \E r \in {add_param(Cur(okDb, okCfg), raw, val)} :
            Commit(r.a, "add_param", r.mutated, Strip(raw))
    /\ UNCHANGED phase

\* the params of the category selected, as the param list shows them
ShownParams == KeySet(CurObj(Cur(TRUE, TRUE)).params)

\* remove_param on the selected row of the param list
RemoveParam ==
    /\ Running
    /\ \E pname \in ShownParams \cup {<<>>}, confirm, okDb, okCfg \in BOOLEAN :
         \E r \in {remove_param(Cur(okDb, okCfg), pname, confirm)} :
            CommitAsked(r.a, "remove_param", r.mutated, pname, confirm)
    /\ UNCHANGED phase

\* Apply pressed in the inline box, which on_keyword_select fills with one
\* entry for each placeholder of the selected keyword
ApplyInlineParam ==
    /\ Running
    /\ \E idx \in 1..kw_rows, okDb, okCfg \in BOOLEAN :
         \E obj \in {CurObj(Cur(TRUE, TRUE))} :
            /\ idx <= Len(obj.keywords)
            /\ \E n \in 1..Len(PlaceholdersOf(Cur(TRUE, TRUE), obj.keywords[idx])) :
                 \E key \in {PlaceholdersOf(Cur(TRUE, TRUE), obj.keywords[idx])[n]} :
                    /\ HasKey(obj.params, key)
                    /\ \E r \in {apply_inline_param(Cur(okDb, okCfg), key, <<"2">>)} :
                          Commit(r.a, "apply_inline_param", r.mutated, key)
    /\ UNCHANGED phase

\* a value of the param list is edited in place and committed with Return
CommitParamEdit ==
    /\ Running
    /\ \E editing_key \in ShownParams, okDb, okCfg \in BOOLEAN :
         \E r \in {_commit_param_edit(Cur(okDb, okCfg), editing_key, <<"2">>)} :
            Commit(r.a, "commit_param_edit", r.mutated, editing_key)
    /\ UNCHANGED phase

\* a normalized keyword with a placeholder
KwWithPlaceholder ==
    KwDict(JStr(<<>>), JStr(<<>>), JStr(<<>>), Absent, Absent,
           JList(<<JStr(<<"a">>), JStr(PartC)>>), Absent)
DbOf(cats) == <<[k |-> MTK, v |-> <<[k |-> NameA, v |-> cats]>>]>>
\* issue A with a keyword in _COMMON and a legacy category that is a list
DbMixed ==
    DbOf(<<[k |-> COMMON, v |-> [EmptyCat EXCEPT !.keywords = <<KwWithPlaceholder>>]],
           [k |-> NameF, v |-> JList(<<JStr(TxtX)>>)]>>)
\* issue A without _COMMON
DbNoCommon == DbOf(<<[k |-> NameF, v |-> EmptyCat]>>)
CfgA == CfgOf(<<[k |-> MTK, v |-> VObj(JList(<<JStr(NameA)>>), JStr(<<",">>))]>>)

NameG == <<"G">>
\* two issues; the second holds a legacy _COMMON that is a list
DbTwoIssues ==
    <<[k |-> MTK,
       v |-> <<[k |-> NameA, v |-> _default_issue_obj],
               [k |-> NameG, v |-> <<[k |-> COMMON, v |-> JList(<<JStr(TxtX)>>)],
                                     [k |-> NameF, v |-> EmptyCat]>>]>>]>>
CfgAG ==
    CfgOf(<<[k |-> MTK, v |-> VObj(JList(<<JStr(NameA), JStr(NameG)>>), JStr(<<",">>))]>>)

\* the two documents as found at a start: none (first start); a DB with its
\* config; a DB whose issue lacks _COMMON, without a config; a DB of two
\* issues with its config
StartDocs ==
    {[db |-> <<>>, cfg |-> EmptyCfg],
     [db |-> DbMixed, cfg |-> CfgA],
     [db |-> DbNoCommon, cfg |-> EmptyCfg],
     [db |-> DbTwoIssues, cfg |-> CfgAG]}

\* a ui_state with a window geometry
UiOfPkg == << [k |-> GEOMETRY, v |-> JStr(<<"1">>)] >>
\* a package that export_data wrote
ImportPkgs == {Package(JStr(EXPORT_SCHEMA), JDict(DbNoCommon), JDict(CfgA), JDict(<<>>))}

\* Import (Replace) with one of files chosen in the file dialog
ImportFrom(files) ==
    /\ Running
    /\ \E file \in files, confirm, okDb, okCfg, okUi \in BOOLEAN :
         \E r \in {import_data_replace([Cur(okDb, okCfg) EXCEPT !.okUi = okUi],
                                       file, confirm)} :
            CommitAsked(r.a, "import", r.mutated, file, confirm)
    /\ UNCHANGED phase

ImportReplace == ImportFrom(ImportPkgs)

\* the application before it starts, the two files holding one of docs; the
\* run is followed for max operations
InitWithin(docs, max) ==
    /\ \E doc \in docs : disk_db = doc.db /\ disk_cfg = doc.cfg
    /\ db = <<>>
    /\ issue_cfg = EmptyCfg
    /\ sel = NoSel
    /\ nav_tree = {}
    /\ kw_rows = 0
    /\ NoUi
    /\ removed = {}
    /\ nops = [NoOps EXCEPT !.max = max]
    /\ phase = "boot"
    /\ last = NoLast
    /\ sv = IdleSv
    /\ px = IdlePx

InitWith(docs) == InitWithin(docs, MaxOps)

Init == InitWith(StartDocs)

\* navigation, the issue and category operations, adding keywords and
\* params, import
Next ==
    \/ Startup
    \/ NavSelect
    \/ AddIssue \/ DeleteIssue \/ RenameIssue
    \/ AddCategory \/ DeleteCategory \/ RenameCategory
    \/ KeywordSelect \/ AddKeyword \/ AddParam
    \/ ImportReplace
    \/ Returned

Spec == Init /\ [][Next]_vars

\* the documents at a start of the keyword and param editing runs
EditDocs == {[db |-> DbMixed, cfg |-> CfgA]}

InitEdit == InitWith(EditDocs)

\* navigation, the keyword and param operations, and the renames, which move
\* a category with its keywords and params
NextEdit ==
    \/ Startup
    \/ NavSelect
    \/ KeywordSelect \/ AddKeyword \/ EditKeyword
    \/ AddParam \/ RemoveParam \/ ApplyInlineParam \/ CommitParamEdit
    \/ RenameCategory \/ RenameIssue
    \/ Returned

SpecEdit == InitEdit /\ [][NextEdit]_vars

\* a Config unlike the ones at a start: the delimiter is ";"
CfgSemi == CfgOf(<<[k |-> MTK, v |-> VObj(JList(<<JStr(NameA)>>), JStr(<<";">>))]>>)

\* what the file chosen for an import holds: no JSON; a JSON value that is no
\* object; objects with another schema or none, without db or issue_cfg, with
\* a db or an issue_cfg that is no object; packages as export_data writes
\* them, with a ui_state and with an empty one
ImportFiles ==
    {NoFile, Unreadable, JList(<<>>),
     Package(JStr(<<"X">>), JDict(DbNoCommon), JDict(CfgSemi), JDict(UiOfPkg)),
     Package(Absent, JDict(DbNoCommon), JDict(CfgSemi), Absent),
     Package(JStr(EXPORT_SCHEMA), Absent, JDict(CfgSemi), JDict(UiOfPkg)),
     Package(JStr(EXPORT_SCHEMA), JDict(DbNoCommon), Absent, JDict(UiOfPkg)),
     Package(JStr(EXPORT_SCHEMA), JList(<<>>), JDict(CfgSemi), JDict(UiOfPkg)),
     Package(JStr(EXPORT_SCHEMA), JDict(DbNoCommon), JNull, JDict(UiOfPkg)),
     Package(JStr(EXPORT_SCHEMA), JDict(DbNoCommon), JDict(CfgSemi), JDict(UiOfPkg)),
     Package(JStr(EXPORT_SCHEMA), JDict(DbNoCommon), JDict(CfgSemi), JDict(<<>>))}

ImportFile == ImportFrom(ImportFiles)

InitImport == InitWith(EditDocs)

\* imports of every kind of file, between navigation and category operations
NextImport ==
    \/ Startup
    \/ NavSelect
    \/ AddCategory
    \/ ImportFile
    \/ Returned

SpecImport == InitImport /\ [][NextImport]_vars

MaxOpsLong == 4     \* user operations handled after the start, in the longer runs

\* a start that selects an issue an imported Catalog lacks
LongDocs == {[db |-> DbNoCommon, cfg |-> EmptyCfg]}

InitLong == InitWithin(LongDocs, MaxOpsLong)

\* longer runs of the issue operations, between imports and an operation that
\* reads the selected category
NextLong ==
    \/ Startup
    \/ AddIssue \/ DeleteIssue \/ RenameIssue
    \/ AddKeyword
    \/ ImportReplace
    \/ Returned

SpecLong == InitLong /\ [][NextLong]_vars

\* on_tree_click: a click on a row of the keyword list, in the Info, Copy or
\* CopyNP column, or below the rows
TreeClick ==
    /\ Running
    /\ \E row \in 0..kw_rows, col \in {"#3", "#4", "#5"} :
         \E r \in {on_tree_click(Cur(TRUE, TRUE), row, col)} :
            CommitRow(r.a, "tree_click", r.mutated, [col |-> col, pending |-> fb.pending],
                      FALSE, row)
    /\ UNCHANGED phase

\* the main loop runs a reset callback that after() scheduled
CopyFeedbackTimer ==
    /\ phase = "running"
    /\ last = NoLast
    /\ \E id \in fb.pending :
         fb' = _clear_copy_feedback(
                   [Cur(TRUE, TRUE) EXCEPT !.fb.pending = @ \ {id}]).fb
    /\ UNCHANGED <<db, issue_cfg, disk_db, disk_cfg, sel, nav_tree, kw_rows, nops, removed,
                   phase,
                   last, ui_state, disk_ui, sv, px>>

InitFeedback == InitWith(EditDocs)

\* copy clicks, the callbacks they schedule, and handlers that refresh the
\* keyword list
NextFeedback ==
    \/ Startup
    \/ NavSelect
    \/ AddKeyword
    \/ TreeClick
    \/ CopyFeedbackTimer
    \/ Returned

SpecFeedback == InitFeedback /\ [][NextFeedback]_vars

---------------------------------------------------------------------------
(* Names that hold the separator of the node ids *)

\* names typed into a dialog: with and without "|"
NameXY == <<"X", "|", "Y">>
NameGH == <<"G", "|", "H">>
CategoryNamesWithBar == {NameXY, <<"X">>}
IssueNamesWithBar == {NameGH}

AddCategoryWithBar == AddCategoryNamed(CategoryNamesWithBar)
AddIssueWithBar == AddIssueNamed(IssueNamesWithBar)

InitBar == InitWith(EditDocs)

\* issues and categories added under such names, and navigation
NextBar ==
    \/ Startup
    \/ NavSelect
    \/ AddCategoryWithBar \/ AddIssueWithBar
    \/ Returned

SpecBar == InitBar /\ [][NextBar]_vars

---------------------------------------------------------------------------
(* Closing the window, the end of the process, and the next start *)

MaxOpsClose == 3    \* operations of a run with closes and restarts

\* geometries of the window when it is closed
Geometries == {<<"1">>}

\* WM_DELETE_WINDOW: on_close
Close ==
    /\ Running
    /\ \E geometry \in Geometries, okDb, okCfg, okUi \in BOOLEAN :
         \E r \in {on_close([Cur(okDb, okCfg) EXCEPT !.okUi = okUi], geometry)} :
            /\ CommitAsked(r.a, "close", FALSE, geometry, FALSE)
            /\ phase' = IF r.destroyed THEN "closed" ELSE "running"

\* the process stops without on_close (killed, power loss)
Kill ==
    /\ phase = "running"
    /\ last = NoLast
    /\ phase' = "closed"
    /\ last' = [NoLast EXCEPT !.step = "kill"]
    /\ UNCHANGED <<db, issue_cfg, disk_db, disk_cfg, sel, nav_tree, kw_rows, nops, removed,
                   uiVars, sv, px>>

\* a new process: nothing in memory, the three files as they were left
Restart ==
    /\ phase = "closed"
    /\ nops.ops < nops.max
    /\ phase' = "boot"
    /\ last' = NoLast
    /\ db' = <<>>
    /\ issue_cfg' = EmptyCfg
    /\ sel' = NoSel
    /\ nav_tree' = {}
    /\ kw_rows' = 0
    /\ ui_state' = <<>>
    /\ fb' = IdleFb
    /\ UNCHANGED <<disk_db, disk_cfg, disk_ui, nops, removed, sv, px>>

CloseDocs == {[db |-> DbTwoIssues, cfg |-> CfgAG]}

InitClose == InitWithin(CloseDocs, MaxOpsClose)

\* navigation, issue operations, closing and starting again
NextClose ==
    \/ Startup
    \/ NavSelect
    \/ AddIssue \/ DeleteIssue
    \/ Close \/ Kill \/ Restart
    \/ Returned

SpecClose == InitClose /\ [][NextClose]_vars

---------------------------------------------------------------------------
(* The template functions applied to a template and the params of a category *)

MaxPieces == 3      \* pieces of a template

RECURSIVE Concat(_)
Concat(q) == IF q = <<>> THEN <<>> ELSE Head(q) \o Concat(Tail(q))

\* a template is made of placeholders, braces, name characters and other text
Pieces ==
    {<<"{", "A", "}">>, <<"{", "B", "}">>, <<"{">>, <<"}">>, <<"A">>, <<"A", "}">>, <<";">>}
Templates == {Concat(q) : q \in BSeq(Pieces, MaxPieces)}

\* param values as typed by the user: plain text, the name of a param, text
\* that is a placeholder
ParamNames == {<<"A">>, <<"B">>}
ParamValues == {JStr(<<"3">>), JStr(<<"B">>), JStr(<<"{", "B", "}">>)}
ParamDicts ==
    {<<>>}
    \cup {<<[k |-> k1, v |-> v1]>> : k1 \in ParamNames, v1 \in ParamValues}
    \cup {d \in {<<[k |-> k1, v |-> v1], [k |-> k2, v |-> v2]>> :
                      k1 \in ParamNames, k2 \in ParamNames, v1 \in ParamValues,
                      v2 \in ParamValues} : d[1].k # d[2].k}

Reverse(q) == [n \in 1..Len(q) |-> q[Len(q) + 1 - n]]

\* preview = render_keyword(raw_joined, params) (lines 1581, 1605, 1770, 1972)
Render ==
    /\ px.f = "template"
    /\ px' = [f |-> "rendered", in |-> px.in,
              out |-> render_keyword(px.in.template, px.in.params)]
    /\ UNCHANGED appVars /\ UNCHANGED sv

\* the same entries of params inserted in the given and in the opposite order
RenderBothOrders ==
    /\ px.f = "template"
    /\ px' = [f |-> "rendered both", in |-> px.in,
              out |-> [given |-> render_keyword(px.in.template, px.in.params),
                       opposite |-> render_keyword(px.in.template,
                                                   Reverse(px.in.params))]]
    /\ UNCHANGED appVars /\ UNCHANGED sv

\* render_keyword_without_params(raw_joined) (lines 1794, 1979)
RenderWithoutParams ==
    /\ px.f = "template"
    /\ px' = [f |-> "without params", in |-> px.in,
              out |-> render_keyword_without_params(px.in.template)]
    /\ UNCHANGED appVars /\ UNCHANGED sv

\* detect_placeholders(raw_joined) (line 1652)
DetectPlaceholders ==
    /\ px.f = "template"
    /\ px' = [f |-> "detected", in |-> px.in,
              out |-> detect_placeholders(px.in.template)]
    /\ UNCHANGED appVars /\ UNCHANGED sv

\* a template and the params of its category, no function applied yet
InitTextWith(dicts) ==
    /\ \E t \in Templates, ps \in dicts :
         px = [f |-> "template", in |-> [template |-> t, params |-> ps], out |-> <<>>]
    /\ db = <<>> /\ issue_cfg = EmptyCfg /\ disk_db = <<>> /\ disk_cfg = EmptyCfg
    /\ sel = NoSel /\ nav_tree = {} /\ kw_rows = 0 /\ nops = NoOps /\ NoUi /\ removed = {}
    /\ phase = "boot" /\ last = NoLast /\ sv = IdleSv

InitRender == InitTextWith(ParamDicts)

NextRender == Render \/ RenderBothOrders

\* render_keyword applied to every template with every params dict
SpecRender == InitRender /\ [][NextRender]_vars

InitText == InitTextWith({<<>>})

NextText == RenderWithoutParams \/ DetectPlaceholders

\* the functions of the template alone applied to every template
SpecText == InitText /\ [][NextText]_vars

\* the text in which every "{" + k + "}" of s, k a key of params, stands
\* replaced by the value of k, s being read once from left to right
RECURSIVE Substituted(_, _)
Substituted(s, params) ==
    IF s = <<>> THEN <<>>
    ELSE LET hits == {n \in 1..Len(params) : StartsWith(s, Token(params[n].k))}
         IN  IF hits # {}
             THEN LET n == CHOOSE n \in hits : \A m \in hits : n <= m
                  IN  PyStr(params[n].v)
                      \o Substituted(SubSeq(s, Len(Token(params[n].k)) + 1, Len(s)), params)
             ELSE <<Head(s)>> \o Substituted(Tail(s), params)

\* C22: render_keyword(template, params) is the template with every {NAME}
\* whose NAME is a key of params replaced by str(params[NAME]); every other
\* {NAME} and all other text of the template is unchanged.
RenderReplacesKeysOnly ==
    px.f = "rendered" => px.out = Substituted(px.in.template, px.in.params)

\* with at most one entry in params, render_keyword is that substitution
RenderReplacesKeysOfOneParam ==
    px.f = "rendered" /\ Len(px.in.params) <= 1
        => px.out = Substituted(px.in.template, px.in.params)

\* a {NAME} token of s starts at i, its name has n characters
TokenAt(s, i, n) ==
    /\ n >= 1
    /\ i + n + 1 <= Len(s)
    /\ s[i] = "{"
    /\ s[i + n + 1] = "}"
    /\ \A j \in (i + 1)..(i + n) : s[j] \in NameChars

HasToken(s) == \E i \in 1..Len(s), n \in 1..Len(s) : TokenAt(s, i, n)

\* the positions of s that are in no token
OutsideTokens(s) ==
    {j \in 1..Len(s) :
        ~\E i \in 1..j, n \in 1..Len(s) : TokenAt(s, i, n) /\ j <= i + n + 1}

\* the k-th position of s that is in no token
NthOutside(s, k) ==
    CHOOSE j \in OutsideTokens(s) : Cardinality({m \in OutsideTokens(s) : m < j}) = k - 1

\* s without its tokens
WithoutTokens(s) == [k \in 1..Cardinality(OutsideTokens(s)) |-> s[NthOutside(s, k)]]

\* C23 as stated: render_keyword_without_params(template) is the template
\* without its {NAME} tokens, and holds no {NAME} token.
WithoutParamsHasNoToken ==
    px.f = "without params" =>
        /\ px.out = WithoutTokens(px.in.template)
        /\ ~HasToken(px.out)

\* C23: render_keyword_without_params(template) is the template without its
\* {NAME} tokens, all other text kept in order; a {NAME} token of the result
\* is made of text that a deleted token separated in the template.
WithoutParamsDeletesTokens ==
    px.f = "without params" =>
        /\ px.out = WithoutTokens(px.in.template)
        /\ \A k \in 1..Len(px.out), n \in 1..Len(px.out) :
              TokenAt(px.out, k, n) =>
                  NthOutside(px.in.template, k + n + 1) - NthOutside(px.in.template, k)
                      > n + 1

\* two tokens of a template were deleted and the text between them kept
TwoTokensDeleted ==
    /\ px.f = "without params"
    /\ px.in.template = <<"{", "A", "}", ";", "{", "B", "}">>
    /\ px.out = <<";">>

\* the positions of s at which a token starts, and the name of that token
TokenStarts(s) == {i \in 1..Len(s) : \E n \in 1..Len(s) : TokenAt(s, i, n)}
TokenName(s, i) == SubSeq(s, i + 1, i + (CHOOSE n \in 1..Len(s) : TokenAt(s, i, n)))
FirstStart(s, name) ==
    CHOOSE i \in TokenStarts(s) :
        /\ TokenName(s, i) = name
        /\ \A j \in TokenStarts(s) : TokenName(s, j) = name => i <= j

\* C27: detect_placeholders(text) holds exactly the names of the {NAME}
\* tokens of text, each name once, in the order of their first occurrences.
DetectsNamesInFirstSeenOrder ==
    px.f = "detected" =>
        /\ {px.out[k] : k \in 1..Len(px.out)}
               = {TokenName(px.in.template, i) : i \in TokenStarts(px.in.template)}
        /\ Distinct(px.out)
        /\ \A a, b \in 1..Len(px.out) :
              a < b => FirstStart(px.in.template, px.out[a])
                          < FirstStart(px.in.template, px.out[b])

\* a name occurs twice with another name between: it is reported once, first
RepeatedNameDetectedOnce ==
    /\ px.f = "detected"
    /\ px.in.template = <<"{", "B", "}", "{", "A", "}", "{", "B", "}">>
    /\ px.out = << <<"B">>, <<"A">> >>

\* C29: render_keyword gives the same string for the entries of params in
\* either order.
RenderOrderIndependent ==
    px.f = "rendered both" => px.out.given = px.out.opposite

---------------------------------------------------------------------------
(* Parts joined by the delimiter of the vendor, and split again *)

MaxParts == 3       \* parts of a keyword

\* parts as _get_parts gives them: trimmed, not empty
PartTexts == {<<"A">>, <<"B">>, <<"A", ";">>, <<";", "B">>, <<"A", " ", "B">>}
\* delimiters of a vendor: none, the default, two characters, with a space
Delimiters == {<<>>, <<";">>, <<";", ";">>, <<";", " ">>, <<" ">>}

\* self.delimiter.join(self._get_parts()) (line 606), keyword_joined_template
JoinParts ==
    /\ px.f = "parts"
    /\ px' = [f |-> "joined", in |-> px.in,
              out |-> keyword_joined_template(
                          KwDict(Absent, Absent, Absent, Absent, Absent,
                                 JList([n \in 1..Len(px.in.parts) |-> JStr(px.in.parts[n])]),
                                 Absent),
                          px.in.delimiter)]
    /\ UNCHANGED appVars /\ UNCHANGED sv

\* the joined string pasted into the dialog and split (lines 629-633)
SplitJoined ==
    /\ px.f = "joined"
    /\ px' = [f |-> "split", in |-> px.in,
              out |-> _split_by_delimiter(Strip(px.out), px.in.delimiter)]
    /\ UNCHANGED appVars /\ UNCHANGED sv

\* the joined string stored as the text of a legacy keyword and opened in
\* the dialog (line 456)
PartsFromText ==
    /\ px.f = "joined"
    /\ px' = [f |-> "parts of text", in |-> px.in,
              out |-> keyword_parts_from_kw(
                          KwDict(Absent, Absent, Absent, Absent, Absent, Absent,
                                 JStr(px.out)),
                          px.in.delimiter)]
    /\ UNCHANGED appVars /\ UNCHANGED sv

InitSplit ==
    /\ \E ps \in BSeq(PartTexts, MaxParts), dl \in Delimiters :
         px = [f |-> "parts", in |-> [parts |-> ps, delimiter |-> dl], out |-> <<>>]
    /\ db = <<>> /\ issue_cfg = EmptyCfg /\ disk_db = <<>> /\ disk_cfg = EmptyCfg
    /\ sel = NoSel /\ nav_tree = {} /\ kw_rows = 0 /\ nops = NoOps /\ NoUi /\ removed = {}
    /\ phase = "boot" /\ last = NoLast /\ sv = IdleSv

NextSplit == JoinParts \/ SplitJoined \/ PartsFromText

SpecSplit == InitSplit /\ [][NextSplit]_vars

\* the parts are trimmed and not empty, and none contains the delimiter
CleanParts(parts, delimiter) ==
    \A n \in 1..Len(parts) :
        /\ parts[n] # <<>>
        /\ Strip(parts[n]) = parts[n]
        /\ ~Contains(parts[n], delimiter)

\* C24 as stated: parts that are trimmed, not empty and free of the
\* delimiter, joined by a non-empty delimiter and split by it, are the same
\* list again; with the empty delimiter the split is empty.
JoinSplitRoundTrip ==
    px.f = "split" =>
        /\ (px.in.delimiter # <<>> /\ CleanParts(px.in.parts, px.in.delimiter)
                => px.out = px.in.parts)
        /\ (px.in.delimiter = <<>> => px.out = <<>>)

\* the positions of text at which delimiter occurs
Occurrences(text, delimiter) ==
    {i \in 1..Len(text) :
        i + Len(delimiter) - 1 <= Len(text)
        /\ SubSeq(text, i, i + Len(delimiter) - 1) = delimiter}

\* the positions at which the join of parts holds the delimiters it put in
RECURSIVE JoinPositions(_, _, _)
JoinPositions(parts, delimiter, at) ==
    IF Len(parts) <= 1 THEN {}
    ELSE {at + Len(parts[1])}
         \cup JoinPositions(Tail(parts), delimiter, at + Len(parts[1]) + Len(delimiter))

\* C24: the round trip holds for a delimiter of one character, and for any
\* non-empty delimiter that occurs in the joined string only where the join
\* put it; with the empty delimiter the split is empty.
JoinSplitRoundTripWhenUnambiguous ==
    px.f = "split" =>
        /\ (Len(px.in.delimiter) = 1 /\ CleanParts(px.in.parts, px.in.delimiter)
                => px.out = px.in.parts)
        /\ (px.in.delimiter # <<>> /\ CleanParts(px.in.parts, px.in.delimiter)
             /\ Occurrences(Join(px.in.parts, px.in.delimiter), px.in.delimiter)
                    = JoinPositions(px.in.parts, px.in.delimiter, 1)
                => px.out = px.in.parts)
        /\ (px.in.delimiter = <<>> => px.out = <<>>)

\* A, B, A joined by ";" and split: order and the repeated part are kept
RepeatedPartSplitBack ==
    /\ px.f = "split"
    /\ px.in = [parts |-> << <<"A">>, <<"B">>, <<"A">> >>, delimiter |-> <<";">>]
    /\ px.out = px.in.parts

---------------------------------------------------------------------------
(* Properties of the running application, checked under Spec *)

\* C3: in every state after the start, whatever issue, category, navigation
\* and import operations followed, every vendor of the Catalog has a non-empty
\* issue list in the Config and every issue's category map holds _COMMON.
IssueListsNonEmptyAndCommonPresent ==
    phase = "running" =>
        \A v \in KeySet(db) :
            /\ _get_vendor_issues(issue_cfg, v) # <<>>
            /\ \A i \in KeySet(Get(db, v)) : HasKey(Get(Get(db, v), i), COMMON)

IssueSteps == {"add_issue", "delete_issue", "rename_issue"}
CrudSteps ==
    IssueSteps \cup {"add_category", "delete_category", "rename_category",
                     "add_keyword", "add_param"}

\* the documents a handler saves through _persist_issues / _persist_db
PersistedBy(step) == IF step \in IssueSteps THEN {"db", "cfg"} ELSE {"db"}

\* the mutation the last handler made is in self.db and self.issue_cfg
EditInMemory ==
    LET v == last.at.v
        i == last.at.i
        d == last.at.d
        listed(name) == InSeq(JStr(name), _get_vendor_issues(issue_cfg, v))
        inDb(name) == HasKey(db, v) /\ HasKey(Get(db, v), name)
        cat(name) == HasPath(db, v, i, name)
    IN  CASE last.step = "add_issue" -> listed(last.arg) /\ inDb(last.arg)
          [] last.step = "delete_issue" -> ~listed(i) /\ ~inDb(i)
          [] last.step = "rename_issue" ->
                listed(last.arg) /\ inDb(last.arg) /\ ~listed(i) /\ ~inDb(i)
          [] last.step = "add_category" -> cat(last.arg)
          [] last.step = "delete_category" -> ~cat(d)
          [] last.step = "rename_category" -> cat(last.arg) /\ ~cat(d)
          [] last.step = "add_keyword" ->
                (Complete(last.at) =>
                    \E n \in 1..Len(GetCat(db, v, i, d).keywords) :
                        GetCat(db, v, i, d).keywords[n].parts = AsJList(_get_parts(last.arg)))
          [] last.step = "add_param" ->
                (Complete(last.at) => HasKey(GetCat(db, v, i, d).params, last.arg))

\* C9: when the save made by a CRUD handler fails, an ERROR entry for the
\* document is logged, the application is still running and the mutation is
\* still in the in-memory Catalog and Config.
FailedSaveReportedAndEditKept ==
    (last.step \in CrudSteps /\ last.mutated) =>
        /\ \A doc \in last.failed \cap PersistedBy(last.step) :
               <<"ERROR", doc>> \in last.log
        /\ phase = "running"
        /\ EditInMemory

\* a category was added while the save of keywords_db.json failed: the file
\* lacks the category, the DB in memory has it
CategoryAddedSaveFailed ==
    /\ last.step = "add_category"
    /\ last.mutated
    /\ "db" \in last.failed
    /\ HasPath(db, last.at.v, last.at.i, last.arg)
    /\ ~HasPath(disk_db, last.at.v, last.at.i, last.arg)

UserSteps == CrudSteps \cup {"nav_select", "keyword_select", "import"}

\* C10: after a user operation that changed the in-memory Catalog or Config,
\* no save having failed since the start, the changed document on disk equals
\* the one in memory.
WriteThrough ==
    (phase = "running" /\ last.step \in UserSteps /\ nops.fails = 0) =>
        /\ (last.mem_db => disk_db = db)
        /\ (last.mem_cfg => disk_cfg = issue_cfg)


\* C11: delete_category and rename_category invoked while the selected
\* category is _COMMON leave the Catalog as it was, save nothing (no save is
\* attempted, both files keep their content) and _COMMON is still a category
\* of the selected issue.
ProtectedCategoryKept ==
    (last.step \in {"delete_category", "rename_category"} /\ last.at.d = COMMON) =>
        /\ Docs = last.pre
        /\ last.log = {}
        /\ (HasPath(last.pre.db, last.at.v, last.at.i, COMMON)
               => HasPath(db, last.at.v, last.at.i, COMMON))

\* a rename of _COMMON to a new, unused name was turned down
CommonRenameRejected ==
    /\ last.step = "rename_category"
    /\ last.at.d = COMMON
    /\ last.arg = <<"B">>
    /\ ~last.mutated
    /\ HasPath(db, last.at.v, last.at.i, COMMON)
    /\ ~HasPath(db, last.at.v, last.at.i, <<"B">>)


\* the issue list of the vendor v in the Config c, as names
IssueList(c, v) == StrsOf(_get_vendor_issues(c, v))
\* d[v], or no issue when v is not a vendor of d
IssuesIn(d, v) == IF HasKey(d, v) THEN Get(d, v) ELSE <<>>
Without(q, x) == SelectSeq(q, LAMBDA y : y # x)

\* the issue j of the vendor v holds now what it held when the handler began
IssueUntouched(v, j) ==
    /\ HasKey(IssuesIn(db, v), j)
    /\ Get(IssuesIn(db, v), j) = Get(IssuesIn(last.pre.db, v), j)

\* the issue formerly named j, now named k, holds the categories it held,
\* each with the content it had; the category that the handler selected at
\* its end is normalized as _current_obj normalizes on a read, or is the
\* empty category created for a selection that names none
IssueKeptButSelection(v, j, k) ==
    /\ HasKey(IssuesIn(db, v), k)
    /\ LET was == Get(IssuesIn(last.pre.db, v), j)
           now == Get(IssuesIn(db, v), k)
           selected(c) == sel = PathOf(v, k, c)
       IN  /\ \A c \in KeySet(was) :
                 /\ HasKey(now, c)
                 /\ \/ Get(now, c) = Get(was, c)
                    \/ selected(c) /\ Get(now, c) = MigrateCat(Get(was, c))
           /\ \A c \in KeySet(now) \ KeySet(was) : selected(c) /\ Get(now, c) = EmptyCat

\* delete_issue ran on an issue of the vendor's list
DeleteIssueAsked ==
    /\ last.step = "delete_issue"
    /\ last.at.v # <<>>
    /\ last.at.i # <<>>
    /\ InSeq(last.at.i, IssueList(last.pre.cfg, last.at.v))

\* what delete_issue does, the other issues compared by Other(v, j)
DeleteIssueDoes(Other(_, _)) ==
    DeleteIssueAsked =>
        LET v == last.at.v
            cur == last.at.i
            before == IssueList(last.pre.cfg, v)
        IN  /\ Len(before) = 1 => (db = last.pre.db /\ issue_cfg = last.pre.cfg)
            /\ (Len(before) > 1 /\ last.confirm) =>
                  /\ IssueList(issue_cfg, v) = Without(before, cur)
                  /\ ~HasKey(IssuesIn(db, v), cur)
                  /\ \A j \in KeySet(IssuesIn(last.pre.db, v)) \ {cur} : Other(v, j)
                  /\ KeySet(IssuesIn(db, v)) = KeySet(IssuesIn(last.pre.db, v)) \ {cur}

\* C12 as stated: delete_issue on the vendor's only issue changes neither the
\* Config nor the Catalog; on one of several, once confirmed, it takes the
\* name out of the vendor's issue list and the key out of the vendor's
\* Catalog subtree, and every other issue is exactly as it was.
DeleteIssueLeavesOthersUntouched == DeleteIssueDoes(IssueUntouched)

\* C12, amended: as above, except that the category which the handler selects
\* when it ends (the first issue left, _COMMON or else its first category)
\* is normalized on that read: a legacy list becomes an object and its
\* keywords are normalized.
DeleteIssueLeavesOthersButSelection ==
    DeleteIssueDoes(LAMBDA v, j : IssueKeptButSelection(v, j, j))

\* the first of two issues was deleted and the issue left was selected
FirstIssueDeleted ==
    /\ DeleteIssueAsked
    /\ last.confirm
    /\ last.mutated
    /\ Len(IssueList(last.pre.cfg, last.at.v)) = 2
    /\ IssueList(issue_cfg, last.at.v) = <<NameG>>
    /\ sel.i = NameG


\* add_issue ran for a vendor with a name that is not blank
AddIssueAsked == last.step = "add_issue" /\ last.at.v # <<>> /\ last.arg # <<>>

\* C13 as stated: add_issue with a name of the vendor's issue list changes
\* nothing (documents, files and selection as before, no save attempted); with
\* any other name it puts the name at the end of the vendor's issue list in the
\* Config and creates Catalog[vendor][name] holding _COMMON alone, empty.
AddIssueAppendsAndCreates ==
    AddIssueAsked =>
        LET v == last.at.v
            name == last.arg
            before == IssueList(last.pre.cfg, v)
        IN  IF InSeq(name, before)
            THEN Docs = last.pre /\ sel = last.at /\ last.log = {} /\ ~last.mutated
            ELSE /\ IssueList(issue_cfg, v) = Append(before, name)
                 /\ HasKey(IssuesIn(db, v), name)
                 /\ Get(IssuesIn(db, v), name) = _default_issue_obj

\* the issues of the vendor v in the Catalog that the vendor's list lacked
\* when the handler began, in the order of the Catalog
UnlistedIssues(v) ==
    SelectSeq(Keys(IssuesIn(last.pre.db, v)),
              LAMBDA k : ~InSeq(k, IssueList(last.pre.cfg, v)))

\* C13, amended: add_issue with a name of the vendor's issue list changes
\* nothing; with any other name the vendor's list is the list from before, then
\* the name, then the issues of the Catalog the list lacked (the handler's
\* closing reconciliation appends them), and Catalog[vendor][name] holds
\* _COMMON alone, empty, unless the Catalog held an issue of that name already.
AddIssueAppendsBeforeUnlisted ==
    AddIssueAsked =>
        LET v == last.at.v
            name == last.arg
            before == IssueList(last.pre.cfg, v)
        IN  IF InSeq(name, before)
            THEN Docs = last.pre /\ sel = last.at /\ last.log = {} /\ ~last.mutated
            ELSE /\ IssueList(issue_cfg, v)
                      = Append(before, name) \o Without(UnlistedIssues(v), name)
                 /\ HasKey(IssuesIn(db, v), name)
                 /\ ~HasKey(IssuesIn(last.pre.db, v), name)
                       => Get(IssuesIn(db, v), name) = _default_issue_obj

\* C13 as stated, as long as no save has failed since the start
AddIssueAppendsAndCreatesWhenSaved == nops.fails = 0 => AddIssueAppendsAndCreates

\* add_issue put issues of the Catalog that the list lacked after the new name
IssueAddedBeforeUnlisted ==
    /\ AddIssueAsked
    /\ last.mutated
    /\ Without(UnlistedIssues(last.at.v), last.arg) # <<>>
    /\ IssueList(issue_cfg, last.at.v)[Len(IssueList(issue_cfg, last.at.v))] # last.arg

\* the issue B was added to a vendor that had an issue
IssueAddedAtEnd ==
    /\ AddIssueAsked
    /\ last.arg = NameB
    /\ last.mutated
    /\ IssueList(last.pre.cfg, last.at.v) # <<>>
    /\ ~InSeq(NameB, IssueList(last.pre.cfg, last.at.v))
    /\ IssueList(issue_cfg, last.at.v)[Len(IssueList(issue_cfg, last.at.v))] = NameB


\* rename_issue ran on an issue of the vendor's list with a new name that is
\* neither blank nor the old one
RenameIssueAsked ==
    /\ last.step = "rename_issue"
    /\ last.at.v # <<>>
    /\ last.at.i # <<>>
    /\ InSeq(last.at.i, IssueList(last.pre.cfg, last.at.v))
    /\ last.arg # <<>>
    /\ last.arg # last.at.i

\* what rename_issue does, the subtree compared by Moved(v, old, new)
RenameIssueDoes(Moved(_, _, _)) ==
    RenameIssueAsked =>
        LET v == last.at.v
            cur == last.at.i
            new == last.arg
            before == IssueList(last.pre.cfg, v)
            after == IssueList(issue_cfg, v)
        IN  IF InSeq(new, before)
            THEN Docs = last.pre /\ sel = last.at /\ last.log = {} /\ ~last.mutated
            ELSE /\ HasKey(IssuesIn(last.pre.db, v), cur) => Moved(v, cur, new)
                 /\ ~HasKey(IssuesIn(db, v), cur)
                 /\ Len(after) = Len(before)
                 /\ \A n \in 1..Len(before) :
                        after[n] = IF before[n] = cur THEN new ELSE before[n]

\* the subtree of the issue old is, as it was, the subtree of the issue new
SubtreeMoved(v, old, new) ==
    /\ HasKey(IssuesIn(db, v), new)
    /\ Get(IssuesIn(db, v), new) = Get(IssuesIn(last.pre.db, v), old)

\* C14 as stated: rename_issue to a name of the list changes nothing; to any
\* other name it leaves the whole subtree of the old issue, unchanged, under
\* the new key, the old key is gone, and the Config list has the new name
\* where the old one was, its other entries and its length as before.
RenameIssueMovesSubtreeUnchanged == RenameIssueDoes(SubtreeMoved)

\* C14, amended: as above, except that the category of the renamed issue
\* which the handler selects when it ends (_COMMON, or else its first
\* category) is normalized on that read.
RenameIssueMovesSubtreeButSelection == RenameIssueDoes(IssueKeptButSelection)

\* the second issue of a vendor was renamed; it keeps the second place
SecondIssueRenamed ==
    /\ RenameIssueAsked
    /\ last.mutated
    /\ IssueList(last.pre.cfg, last.at.v) = <<NameA, NameG>>
    /\ IssueList(issue_cfg, last.at.v) = <<NameA, NameB>>
    /\ HasKey(IssuesIn(db, last.at.v), NameB)


---------------------------------------------------------------------------
(* Properties of keyword and param editing, checked under SpecEdit *)

\* the keyword list of the category at the path p of the Catalog d
KeywordsAt(d, p) ==
    IF Complete(p) /\ HasPath(d, p.v, p.i, p.d) /\ GetCat(d, p.v, p.i, p.d).t = "cat"
    THEN GetCat(d, p.v, p.i, p.d).keywords
    ELSE <<>>

\* the keyword dialog was opened by add_keyword, or by edit_keyword on a row
\* of the selected category's list, and OK was pressed with the entries last.arg
KeywordDialogOk ==
    /\ Complete(last.at)
    /\ \/ last.step = "add_keyword"
       \/ /\ last.step = "edit_keyword"
          /\ last.row \in 1..Len(KeywordsAt(last.pre.db, last.at))

\* the entries trimmed, the empty ones left out, in their order
RECURSIVE TrimmedNonEmpty(_)
TrimmedNonEmpty(entries) ==
    IF entries = <<>> THEN <<>>
    ELSE (IF Strip(Head(entries)) = <<>> THEN <<>> ELSE <<Strip(Head(entries))>>)
         \o TrimmedNonEmpty(Tail(entries))

\* C15: add_keyword and edit_keyword store the entered parts stripped, the
\* blank ones dropped, order and repetitions kept; when no part is left, and
\* only then, nothing is stored: the keyword list of the category is as it
\* was and no save is attempted.
KeywordStoredWithCleanParts ==
    KeywordDialogOk =>
        LET was == KeywordsAt(last.pre.db, last.at)
            now == KeywordsAt(db, last.at)
            kept == TrimmedNonEmpty(last.arg)
            n == IF last.step = "add_keyword" THEN Len(was) + 1 ELSE last.row
        IN  IF kept = <<>>
            THEN now = was /\ last.log = {} /\ ~last.mutated
            ELSE /\ last.mutated
                 /\ Len(now) = (IF last.step = "add_keyword" THEN Len(was) + 1 ELSE Len(was))
                 /\ now[n].parts = AsJList(kept)
                 /\ \A m \in 1..Len(was) : m # n => now[m] = was[m]
                 /\ \A m \in 1..Len(now) :
                        now[m].parts.t = "list" => now[m].parts.l # <<>>

\* a keyword was replaced by one entered as "X", "", " {D} ", "X"
KeywordEditedWithBlankPart ==
    /\ KeywordDialogOk
    /\ last.step = "edit_keyword"
    /\ last.arg = << <<"X">>, <<>>, <<" ">> \o PartD \o <<" ">>, <<"X">> >>
    /\ KeywordsAt(db, last.at)[last.row].parts = AsJList(<< <<"X">>, PartD, <<"X">> >>)

---------------------------------------------------------------------------
(* Properties of the selection, checked under Spec *)

SelectingSteps ==
    {"nav_select", "delete_category", "delete_issue", "rename_category",
     "rename_issue", "import"}

\* the selection names a category of the Catalog
SelectionExists == HasPath(db, sel.v, sel.i, sel.d)

\* the selected category was deleted
CategoryDeleted ==
    /\ last.step = "delete_category"
    /\ last.mutated
    /\ ~HasPath(db, last.at.v, last.at.i, last.at.d)

\* the categories the issue last.at.i kept, in the order of its map
KeptCategories == SelectSeq(DetailsOf(last.pre.db, last.at.v, last.at.i),
                            LAMBDA c : c # last.at.d)

\* C16: after a navigation, delete, rename or import operation the selection
\* names an existing (vendor, issue, category) of the Catalog; after the
\* selected category was deleted the selection is _COMMON of the same issue if
\* the issue has it, else the first category the issue kept; after the selected
\* issue was deleted the selection is in an issue the vendor kept.
SelectionNamesExistingPath ==
    /\ last.step \in SelectingSteps => SelectionExists
    /\ CategoryDeleted =>
          /\ sel.v = last.at.v /\ sel.i = last.at.i
          /\ InSeq(COMMON, KeptCategories) => sel.d = COMMON
          /\ (KeptCategories # <<>> /\ ~InSeq(COMMON, KeptCategories))
                => sel.d = KeptCategories[1]
    /\ (last.step = "delete_issue" /\ last.mutated) =>
          /\ sel.v = last.at.v
          /\ sel.i # last.at.i
          /\ InSeq(sel.i, IssueList(issue_cfg, sel.v))
          /\ InSeq(sel.i, IssueList(last.pre.cfg, sel.v))

\* the same, as long as no save has failed since the start
SelectionNamesExistingPathWhenSaved ==
    nops.fails = 0 => SelectionNamesExistingPath

\* an import whose save of keywords_db.json raised left the selection on a
\* category the imported Catalog does not have
ImportLeftSelectionDangling ==
    /\ last.step = "import"
    /\ "db" \in last.failed
    /\ ~SelectionExists

---------------------------------------------------------------------------
(* Properties of the params, checked under SpecEdit *)

\* the paths of the categories of the Catalog d
PathsOf(d) ==
    UNION {UNION {{PathOf(v, i, c) : c \in KeySet(Get(Get(d, v), i))} :
                  i \in KeySet(Get(d, v))} :
           v \in KeySet(d)}

\* the params of the category at the path p of the Catalog d
ParamsAt(d, p) ==
    IF Complete(p) /\ HasPath(d, p.v, p.i, p.d) /\ GetCat(d, p.v, p.i, p.d).t = "cat"
    THEN GetCat(d, p.v, p.i, p.d).params
    ELSE <<>>

\* where the category that was at p is after the last handler: a rename of the
\* selected category or issue moved it
MovedTo(p) ==
    IF last.step = "rename_category" /\ last.mutated /\ p = last.at
    THEN PathOf(p.v, p.i, last.arg)
    ELSE IF last.step = "rename_issue" /\ last.mutated /\ p.v = last.at.v /\ p.i = last.at.i
    THEN PathOf(p.v, last.arg, p.d)
    ELSE p

\* the last handler deleted or replaced the category that was at p
CategoryGone(p) ==
    \/ last.step = "delete_category" /\ p = last.at
    \/ last.step = "delete_issue" /\ p.v = last.at.v /\ p.i = last.at.i
    \/ last.step = "import"

\* the last handler was remove_param on the key k of the category at p
ParamRemoved(p, k) ==
    last.step = "remove_param" /\ last.confirm /\ p = last.at /\ k = last.arg

\* the keys the lazy insertion of on_keyword_select added
KeysInserted ==
    KeySet(ParamsAt(db, last.at)) \ KeySet(ParamsAt(last.pre.db, last.at))

\* C17: a key of a category's params is still a key of them after every
\* handler but remove_param on that key and the deletion or replacement of the
\* category; selecting a keyword adds only placeholders of that keyword that
\* were no keys, with the value "", and leaves every value the params held.
ParamKeysKept ==
    last.step \notin {"none", "startup"} =>
        /\ \A p \in PathsOf(last.pre.db) :
              ~CategoryGone(p) =>
                  \A k \in KeySet(ParamsAt(last.pre.db, p)) :
                      ~ParamRemoved(p, k) => HasKey(ParamsAt(db, MovedTo(p)), k)
        /\ last.step = "keyword_select" =>
              /\ \A k \in KeySet(ParamsAt(last.pre.db, last.at)) :
                    Get(ParamsAt(db, last.at), k) = Get(ParamsAt(last.pre.db, last.at), k)
              /\ \A k \in KeysInserted :
                    /\ Get(ParamsAt(db, last.at), k) = <<>>
                    /\ last.row \in 1..Len(KeywordsAt(db, last.at))
                    /\ InSeq(k, detect_placeholders(
                                   Join(StrsOf(KeywordsAt(db, last.at)[last.row].parts.l),
                                        <<",">>)))

\* a keyword with the placeholder C was selected when the params held C = "1"
PlaceholderValueKept ==
    /\ last.step = "keyword_select"
    /\ last.row = 1
    /\ KeywordsAt(db, last.at)[1].parts = JList(<<JStr(<<"a">>), JStr(PartC)>>)
    /\ HasKey(ParamsAt(last.pre.db, last.at), <<"C">>)
    /\ Get(ParamsAt(last.pre.db, last.at), <<"C">>) = <<"1">>
    /\ Get(ParamsAt(db, last.at), <<"C">>) = <<"1">>

---------------------------------------------------------------------------
(* Properties of the import, checked under SpecImport *)

\* the file held a JSON value
JsonRead(file) == file # NoFile /\ file # Unreadable

\* a JSON value that is an object with the schema of an export, a db that is
\* an object and an issue_cfg that is an object
WellFormedPackage(file) ==
    IF file.t # "dict" THEN FALSE
    ELSE /\ file.schema = JStr(EXPORT_SCHEMA)
         /\ file.db.t = "dict"
         /\ file.issue_cfg.t = "dict"

ErrorLogged == \E e \in last.log : e[1] = "ERROR"

\* C18: an import of a file whose JSON value is no object, has another schema
\* than KeywordGuideExport, or lacks a db or an issue_cfg that is an object, is
\* turned down with an error and changes nothing: self.db, self.issue_cfg,
\* self.ui_state, keywords_db.json, issues_config.json and ui_state.json are as
\* they were, and so is the selection.
InvalidPackageRejected ==
    (last.step = "import" /\ JsonRead(last.arg) /\ ~WellFormedPackage(last.arg)) =>
        /\ Docs = last.pre
        /\ sel = last.at
        /\ ~last.mutated
        /\ last.failed = {}
        /\ ErrorLogged

\* a package with db and issue_cfg but another schema was turned down
WrongSchemaRejected ==
    /\ last.step = "import"
    /\ last.arg.t = "dict"
    /\ last.arg.schema = JStr(<<"X">>)
    /\ last.arg.db = JDict(DbNoCommon)
    /\ last.arg.issue_cfg = JDict(CfgSemi)
    /\ db # DbNoCommon
    /\ Docs = last.pre
    /\ ErrorLogged

\* a well-formed package was imported after the confirmation
ImportConfirmed ==
    last.step = "import" /\ JsonRead(last.arg) /\ WellFormedPackage(last.arg) /\ last.confirm

AllImported ==
    /\ db = last.arg.db.d /\ disk_db = last.arg.db.d
    /\ issue_cfg = last.arg.issue_cfg.d /\ disk_cfg = last.arg.issue_cfg.d

AllPrevious ==
    /\ db = last.pre.db /\ disk_db = last.pre.ddb
    /\ issue_cfg = last.pre.cfg /\ disk_cfg = last.pre.dcfg

\* C19: when import_data_replace has finished with a well-formed package,
\* self.db, self.issue_cfg, keywords_db.json and issues_config.json are all the
\* imported documents or all the documents from before.  (The packages of
\* ImportFiles hold documents the import stores as they are.)
ImportAllOrNothing == ImportConfirmed => AllImported \/ AllPrevious

\* the same, for an import during which no save failed
ImportReplacesAllWhenSaved == (ImportConfirmed /\ last.failed = {}) => AllImported

\* the save of issues_config.json raised: keywords_db.json is the imported
\* one, issues_config.json the one from before
ImportHalfDone ==
    /\ ImportConfirmed
    /\ last.failed = {"cfg"}
    /\ disk_db = last.arg.db.d /\ disk_db # last.pre.ddb
    /\ disk_cfg = last.pre.dcfg /\ disk_cfg # last.arg.issue_cfg.d
    /\ db = last.arg.db.d /\ issue_cfg = last.arg.issue_cfg.d

---------------------------------------------------------------------------
(* Properties of the copy feedback, checked under SpecFeedback *)

\* C20: at every moment at most one reset callback of the copy feedback is
\* pending, and it is the one _copy_feedback_after_id names, whatever copy
\* clicks, list refreshes and timer firings came before.
AtMostOneResetPending ==
    /\ Cardinality(fb.pending) <= 1
    /\ fb.pending \subseteq {fb.after_id}
    /\ 0 \notin fb.pending

\* a copy click came while the reset of the click before was pending: that
\* reset was cancelled and the new one is pending
SecondCopyClickWhilePending ==
    /\ last.step = "tree_click"
    /\ last.mutated
    /\ last.arg.pending = {1}
    /\ fb.pending = {2}
    /\ fb.after_id = 2

---------------------------------------------------------------------------
(* The first start, checked under Spec *)

\* the start found no keywords_db.json and no issues_config.json (or empty ones)
StartedFromNothing ==
    last.step = "startup" /\ last.pre.ddb = <<>> /\ last.pre.dcfg = EmptyCfg

\* C26: after a start from an empty Catalog document and an empty Config
\* document the vendors are exactly MTK and SLSI, in the Catalog and in the
\* Config; each has the two default issues as its Config list and as its
\* issues in the Catalog, each issue holds _COMMON, and each delimiter is ";".
FirstStartGivesDefaults ==
    StartedFromNothing =>
        /\ Keys(db) = <<MTK, SLSI>>
        /\ CfgVendors(issue_cfg) = {MTK, SLSI}
        /\ \A v \in {MTK, SLSI} :
              /\ _get_vendor_issues(issue_cfg, v) = <<JStr(DefIssue1), JStr(DefIssue2)>>
              /\ Keys(Get(db, v)) = <<DefIssue1, DefIssue2>>
              /\ \A i \in {DefIssue1, DefIssue2} : HasKey(Get(Get(db, v), i), COMMON)
              /\ _get_vendor_cfg(issue_cfg, v).delimiter = JStr(<<";">>)

\* the first start is over: the default Catalog is in memory and the first
\* issue of the first vendor is selected
FirstStartDone ==
    /\ StartedFromNothing
    /\ phase = "running"
    /\ db # <<>>
    /\ sel = [v |-> MTK, i |-> DefIssue1, d |-> COMMON]

---------------------------------------------------------------------------
(* Properties of ensure_issue_config_vendor_scoped, checked under SpecRecon *)

\* the items of q at the positions idx, in order
ItemsAt(q, idx) ==
    [k \in 1..Cardinality(idx) |->
        q[CHOOSE j \in idx : Cardinality({m \in idx : m < j}) = k - 1]]

\* the list configured for the vendor v in the document cfg: its own list,
\* or the shared list of the legacy schema; Absent if there is none
ConfiguredList(cfg, v) ==
    IF cfg.vendors.t = "absent"
    THEN cfg.issues
    ELSE IF cfg.vendors.t = "dict" /\ HasKey(cfg.vendors.d, v)
            /\ Get(cfg.vendors.d, v).t = "vobj"
    THEN Get(cfg.vendors.d, v).issues
    ELSE Absent

\* the entries of l as trimmed text, the blank ones and the ones equal to
\* an earlier entry left out
TrimmedFirstOccurrences(l) ==
    LET trimmed == [n \in 1..Len(l) |-> JStr(Strip(PyStr(l[n])))]
    IN  ItemsAt(trimmed,
                {n \in 1..Len(l) :
                    /\ trimmed[n] # JStr(<<>>)
                    /\ \A m \in 1..(n - 1) : trimmed[m] # trimmed[n]})

---------------------------------------------------------------------------
(* Properties of the node ids, checked under SpecBar *)

\* the issue names of the vendor v in the Catalog d
IssueKeys(d, v) == IF HasKey(d, v) THEN KeySet(Get(d, v)) ELSE {}

\* C28: the node ids of an issue and of a category are parsed back to the
\* kind and the names they were made from, whatever the names, so that
\* selecting the node of a category selects that category and adds no
\* category, and selecting the node of an issue selects that issue and adds
\* no issue.
NavSelectSelectsNodePath ==
    last.step = "nav_select" =>
        \A v \in KeySet(last.pre.db) :
            \A i \in IssueKeys(last.pre.db, v) :
                /\ last.arg = _nav_iid_issue(v, i) =>
                      /\ _parse_nav_iid(last.arg)
                            = [kind |-> "i", v |-> v, i |-> i, d |-> <<>>]
                      /\ sel.v = v /\ sel.i = i
                      /\ \A w \in KeySet(db) :
                            IssueKeys(db, w) = IssueKeys(last.pre.db, w)
                /\ \A d \in KeySet(Get(Get(last.pre.db, v), i)) :
                      last.arg = _nav_iid_detail(v, i, d) =>
                          /\ _parse_nav_iid(last.arg)
                                = [kind |-> "d", v |-> v, i |-> i, d |-> d]
                          /\ sel = [v |-> v, i |-> i, d |-> d]
                          /\ PathsOf(db) = PathsOf(last.pre.db)

\* the same for names without "|"
NavSelectSelectsNodePathPlainNames ==
    last.step = "nav_select" /\ ~Contains(last.arg, NameXY) /\ ~Contains(last.arg, NameGH)
        => \A v \in KeySet(last.pre.db) :
            \A i \in IssueKeys(last.pre.db, v) :
                /\ last.arg = _nav_iid_issue(v, i) =>
                      /\ sel.v = v /\ sel.i = i
                      /\ \A w \in KeySet(db) :
                            IssueKeys(db, w) = IssueKeys(last.pre.db, w)
                /\ \A d \in KeySet(Get(Get(last.pre.db, v), i)) :
                      last.arg = _nav_iid_detail(v, i, d) =>
                          /\ sel = [v |-> v, i |-> i, d |-> d]
                          /\ PathsOf(db) = PathsOf(last.pre.db)

---------------------------------------------------------------------------
(* Properties of closing, checked under SpecClose *)

SavedDocs == {"ui", "db", "cfg"}

\* C21: on_close attempts the save of the UI state, of the Catalog and of
\* the Config, every one of them whether or not another one failed, and the
\* application has terminated when on_close is over: each save is in the
\* log as done or as failed, a document whose save did not fail is in its
\* file, and the window is destroyed.
CloseSavesAllAndTerminates ==
    last.step = "close" =>
        /\ phase = "closed"
        /\ \A doc \in SavedDocs :
              IF doc \in last.failed
              THEN <<"ERROR", doc>> \in last.log
              ELSE <<"INFO", doc>> \in last.log
        /\ ("ui" \notin last.failed =>
                /\ HasKey(disk_ui, NAV_PATH)
                /\ Get(disk_ui, NAV_PATH) = NavPath(last.at))
        /\ ("db" \notin last.failed => disk_db = db)
        /\ ("cfg" \notin last.failed => disk_cfg = issue_cfg)

\* the Catalog save of a close failed; the UI state and the Config were
\* written all the same and the application terminated
ClosedWithCatalogSaveFailed ==
    /\ last.step = "close"
    /\ phase = "closed"
    /\ last.failed = {"db"}
    /\ disk_ui # last.pre.dui
    /\ <<"INFO", "cfg">> \in last.log
    /\ disk_cfg = issue_cfg

\* C30: an issue that delete_issue removed, and that nothing added again,
\* is neither in the Config list of its vendor nor in the Catalog, in every
\* later state of the running application, the states after a restart
\* included.
DeletedIssueStaysRemoved ==
    phase = "running" =>
        \A p \in removed : ~HasIssue(issue_cfg, db, p[1], p[2])

\* the same for runs in which no save failed
DeletedIssueStaysRemovedWhenSaved ==
    phase = "running" /\ nops.fails = 0 =>
        \A p \in removed : ~HasIssue(issue_cfg, db, p[1], p[2])

====
